---- MODULE Spec2Model ----
(***************************************************************************)
(* Selective archival and restore of PyCharm projects.                     *)
(*                                                                         *)
(* Two programs are modelled:                                              *)
(*   pycharm_project_backup.py  PyCharmBackupRestoreManager.backup/restore *)
(*                              (specification Spec)                       *)
(*   pycharm_config_backup.py   create_backup / restore_project            *)
(*                              (specification SpecCfg)                    *)
(*                                                                         *)
(* A Path object is a sequence of names; a str is a TLA+ string, and the   *)
(* string functions of the source (startswith, in, replace, suffix) are    *)
(* computed character by character.                                        *)
(***************************************************************************)
EXTENDS Naturals, Sequences, FiniteSets, TLC

(***************************************************************************)
(* String and path primitives (Python str / pathlib / os.path).            *)
(***************************************************************************)

\* str.startswith
StartsWith(s, p) == Len(p) <= Len(s) /\ SubSeq(s, 1, Len(p)) = p

\* str.endswith
EndsWith(s, p) == Len(p) <= Len(s) /\ SubSeq(s, Len(s) - Len(p) + 1, Len(s)) = p

\* `p in s` for two str
Contains(s, p) ==
    \E i \in 1..(Len(s) + 1) : i + Len(p) - 1 <= Len(s) /\ SubSeq(s, i, i + Len(p) - 1) = p

CharAt(s, i) == SubSeq(s, i, i)

\* one character of str.lower()
LowerChar(c) ==
    CASE c = "A" -> "a" [] c = "B" -> "b" [] c = "C" -> "c" [] c = "D" -> "d"
      [] c = "E" -> "e" [] c = "F" -> "f" [] c = "G" -> "g" [] c = "H" -> "h"
      [] c = "I" -> "i" [] c = "J" -> "j" [] c = "K" -> "k" [] c = "L" -> "l"
      [] c = "M" -> "m" [] c = "N" -> "n" [] c = "O" -> "o" [] c = "P" -> "p"
      [] c = "Q" -> "q" [] c = "R" -> "r" [] c = "S" -> "s" [] c = "T" -> "t"
      [] c = "U" -> "u" [] c = "V" -> "v" [] c = "W" -> "w" [] c = "X" -> "x"
      [] c = "Y" -> "y" [] c = "Z" -> "z" [] OTHER -> c

RECURSIVE Lower(_)
\* str.lower()
Lower(s) == IF Len(s) = 0 THEN "" ELSE LowerChar(CharAt(s, 1)) \o Lower(SubSeq(s, 2, Len(s)))

RECURSIVE ReplaceBackslash(_)
\* s.replace('\\', '/')
ReplaceBackslash(s) ==
    IF Len(s) = 0 THEN ""
    ELSE (IF CharAt(s, 1) = "\\" THEN "/" ELSE CharAt(s, 1)) \o ReplaceBackslash(SubSeq(s, 2, Len(s)))

\* the positions of "." in a name
DotPositions(name) == {i \in 1..Len(name) : CharAt(name, i) = "."}

Max(S) == CHOOSE m \in S : \A k \in S : k <= m

\* pathlib: PurePath.suffix of the final component
Suffix(name) ==
    LET dots == DotPositions(name)
    IN IF dots = {} THEN ""
       ELSE LET i == Max(dots)
            IN IF i > 1 /\ i < Len(name) THEN SubSeq(name, i, Len(name)) ELSE ""

RECURSIVE JoinSlash(_)
\* str(Path): the names joined by "/"
JoinSlash(parts) ==
    IF Len(parts) = 0 THEN "."
    ELSE IF Len(parts) = 1 THEN parts[1]
    ELSE parts[1] \o "/" \o JoinSlash(Tail(parts))

\* str() of an absolute Path
AbsStr(parts) == "/" \o JoinSlash(parts)

RECURSIVE SplitSlash(_)
\* the components of a "/"-separated str (Path(s).parts, s.split('/') without
\* empty components)
SplitSlash(s) ==
    IF Len(s) = 0 THEN <<>>
    ELSE LET slashes == {i \in 1..Len(s) : CharAt(s, i) = "/"}
         IN IF slashes = {} THEN <<s>>
            ELSE LET i == CHOOSE j \in slashes : \A k \in slashes : j <= k
                     head == SubSeq(s, 1, i - 1)
                     rest == SplitSlash(SubSeq(s, i + 1, Len(s)))
                 IN IF Len(head) = 0 THEN rest ELSE <<head>> \o rest

\* is p a component-wise prefix of q
IsPrefix(p, q) == Len(p) <= Len(q) /\ SubSeq(q, 1, Len(p)) = p

\* Path.relative_to(base): defined when base is a component-wise prefix
RelativeTo(path, base) == SubSeq(path, Len(base) + 1, Len(path))

\* Path.name
Name(path) == path[Len(path)]

\* Path.parent
Parent(path) == SubSeq(path, 1, Len(path) - 1)

Range(f) == {f[i] : i \in DOMAIN f}

(***************************************************************************)
(* The projects tree that pycharm_project_backup.py scans.  Paths are      *)
(* relative to pycharm_dir; every proper prefix of a file path is a        *)
(* directory.                                                              *)
(***************************************************************************)

\* size of a small file
SmallSize == 1

\* size of a file that sits on the boundary of the size cap
EdgeSize == 3

\* file path -> size in bytes and content
Tree ==
    ( <<"lib", "__init__.py">>                  :> [size |-> SmallSize, data |-> 1]
   @@ <<"lib", "util.dat">>                     :> [size |-> EdgeSize,  data |-> 2]
   @@ <<"lib", "venv", "bin", "activate">>      :> [size |-> SmallSize, data |-> 17]
   @@ <<"lib2", "main.py">>                     :> [size |-> SmallSize, data |-> 3]
   @@ <<"lib2", "big.py">>                      :> [size |-> EdgeSize,  data |-> 4]
   @@ <<"lib2", "notes.bin">>                   :> [size |-> SmallSize, data |-> 5]
   @@ <<"lib2", "notes_old.txt">>               :> [size |-> SmallSize, data |-> 6]
   @@ <<"lib2", "pkg", "__init__.py">>          :> [size |-> SmallSize, data |-> 7]
   @@ <<"lib2", "pkg", "mod.dat">>              :> [size |-> EdgeSize,  data |-> 8]
   @@ <<"lib2", "pkg", "build", "gen.dat">>     :> [size |-> SmallSize, data |-> 9]
   @@ <<"lib2", "data", "sample", "cfg.json">>  :> [size |-> SmallSize, data |-> 10]
   @@ <<"lib2", "build", "out.dat">>            :> [size |-> EdgeSize,  data |-> 11]
   @@ <<"lib2", "venv", "pyvenv.cfg">>          :> [size |-> EdgeSize,  data |-> 12]
   @@ <<"lib2", "venv", "Scripts", "activate">> :> [size |-> SmallSize, data |-> 13]
   @@ <<"lib2", "venv", "lib.py">>              :> [size |-> SmallSize, data |-> 14]
   @@ <<"lib2", "virtualenv", "site.py">>       :> [size |-> SmallSize, data |-> 15]
   @@ <<"lib2", "logs_old", "a.txt">>           :> [size |-> SmallSize, data |-> 16] )

Files == DOMAIN Tree

\* files of the tree that have been removed from the disk
VARIABLE absent

\* every directory of the tree, relative to pycharm_dir (the root is <<>>)
Dirs == UNION {{SubSeq(f, 1, n) : n \in 0..(Len(f) - 1)} : f \in Files}

RECURSIVE SortNames(_)
\* the order in which a directory lists its entries: some fixed order
SortNames(S) ==
    IF S = {} THEN <<>>
    ELSE LET m == CHOOSE x \in S : TRUE
         IN <<m>> \o SortNames(S \ {m})

\* os.walk / os.scandir: the sub-directory names of a directory
SubDirNames(dir) == {d[Len(d)] : d \in {x \in Dirs : Len(x) = Len(dir) + 1 /\ IsPrefix(dir, x)}}

\* os.walk / os.scandir: the file names of a directory
FileNames(dir) ==
    {f[Len(f)] : f \in {x \in Files \ absent : Len(x) = Len(dir) + 1 /\ IsPrefix(dir, x)}}

(***************************************************************************)
(* FilePatternMatcher                                                      *)
(***************************************************************************)

important_extensions ==
    {".py", ".json", ".yml", ".yaml", ".md", ".txt", ".ini", ".cfg",
     ".toml", ".html", ".css", ".js", ".xml", ".iml", ".gitignore",
     ".sql", ".rst", ".sh", ".bat", ".ps1", ".ipynb", ".java", ".properties",
     ".gradle", ".dart", ".kt", ".kts", ".tsx", ".ts", ".jsx"}

important_filenames ==
    {"requirements.txt", "Pipfile", "Pipfile.lock", "pyproject.toml",
     "setup.py", "setup.cfg", "README.md", ".env.example", ".gitignore",
     "Dockerfile", "docker-compose.yml", "Makefile", "LICENSE", ".flake8",
     "poetry.lock", "package.json", "package-lock.json", "tsconfig.json",
     ".prettierrc", ".eslintrc", "tox.ini", ".coveragerc", ".babelrc",
     "webpack.config.js", "vue.config.js", "angular.json", "build.gradle"}

\* FilePatternMatcher.is_important_file(Path(file), include_venv)
is_important_file(file, incl_venv) ==
    \/ Lower(Suffix(file)) \in important_extensions
    \/ file \in important_filenames

excluded_dirs ==
    {"__pycache__", ".git", ".idea", "dist", "build", "node_modules",
     "data", "logs", "temp", "tmp", ".pytest_cache", ".mypy_cache",
     ".ipynb_checkpoints", "output", "downloads", "coverage", "htmlcov"}

venv_dirs == {"venv", ".venv", "env", ".env", "virtualenv"}

\* FilePatternMatcher.is_excluded_dir
is_excluded_dir(dirname, incl_venv, custom) ==
    \/ dirname \in (IF incl_venv THEN excluded_dirs ELSE excluded_dirs \cup venv_dirs)
    \/ \E exclude_pattern \in custom : Contains(dirname, exclude_pattern)

\* FilePatternMatcher.should_exclude_file(file_path, custom_excludes): the
\* pattern is looked for in str(file_path), the absolute path
should_exclude_file(filepath, custom) ==
    \E exclude_pattern \in custom : Contains(AbsStr(filepath), exclude_pattern)

\* FilePatternMatcher.is_in_include_paths(rel_path, include_paths)
is_in_include_paths(rel_path, paths) ==
    /\ Len(paths) > 0
    /\ LET str_path == ReplaceBackslash(JoinSlash(rel_path))
       IN \E i \in 1..Len(paths) : StartsWith(str_path, ReplaceBackslash(paths[i]))

\* FilePatternMatcher.is_module_directory: the directory contains __init__.py
is_module_directory(dir) == (dir \o <<"__init__.py">>) \in Files \ absent

\* the directory names find_all_modules always skips
module_scan_skip == excluded_dirs \cup venv_dirs

RECURSIVE WalkModules(_)
\* os.walk top-down over a stack of directories, pruning module_scan_skip;
\* yields the module directories in visiting order
WalkModules(stack) ==
    IF Len(stack) = 0 THEN <<>>
    ELSE LET root == Head(stack)
             kept == SortNames(SubDirNames(root) \ module_scan_skip)
             next == [i \in 1..Len(kept) |-> root \o <<kept[i]>>] \o Tail(stack)
         IN (IF is_module_directory(root) THEN <<root>> ELSE <<>>) \o WalkModules(next)

\* FilePatternMatcher.find_all_modules(project_dir), relative to pycharm_dir
find_all_modules(project_dir) == WalkModules(<<project_dir>>)

(***************************************************************************)
(* PyCharmBackupRestoreManager: state                                      *)
(***************************************************************************)

VARIABLES
    args,               \* the arguments of backup(): a record named as the parameters
    pycharm_dir_exists, \* pycharm_dir.exists()
    stat_errors,        \* files whose stat() raises
    write_errors,       \* files whose zipf.write() raises
    output_dir_exists,  \* output_path.parent exists on disk
    archive,            \* the container file at output_path: NoFile or its entries
    actions_run,        \* post-backup commands executed by the running/last backup
    op,                 \* the running/last call: "none", "backup" or "restore"
    pc,                 \* position of the running call
    dry_run,            \* the dry_run argument of the running/last backup
    project_dirs,       \* the project names of project_dirs, in iteration order
    project_queue,      \* projects of project_dirs still to process
    module_paths,       \* the module_paths list
    walk_stack,         \* directories os.walk has still to visit
    root_path,          \* the directory being visited (relative to pycharm_dir)
    path_explicitly_included,
    in_venv,
    file_queue,         \* files of root_path still to process
    stats,              \* the stats dictionary
    log,                \* what the running/last backup reported per file
    result,             \* value returned by the last completed call
    prev,               \* outcome of the backup completed before the last one
    last,               \* outcome of the last completed backup
    selected_projects,  \* the selected_projects argument of restore()
    extract_errors,     \* entries whose zipf.extract() raises
    restore_projects,   \* restore(): the set `projects`
    restore_queue,      \* restore(): entries of project_files still to extract
    extracted           \* files under extract_dir: path -> content

\* state of pycharm_config_backup.py
VARIABLES
    cfg_files,          \* regular files on disk: absolute path (str) -> content
    cfg_dirs,           \* directories on disk: set of absolute paths (str)
    cfg_archive,        \* the backup zip at output_file: NoFile or its entries
    cfg_call,           \* the call in progress or last completed, with its arguments
    cfg_pc,             \* position of the running call
    files_to_restore,   \* restore_project(): (zip_path, target_path) pairs still to write
    cfg_written,        \* paths the running/last call wrote or created
    cfg_result,         \* value returned by the last completed call
    cfg_faults,         \* archive names whose copy to disk raises during the running call
    cfg_extracted,      \* archive names the running/last call copied to disk
    cfg_batch,          \* restore_projects(): its arguments, `projects` and its counter
    cfg_listed,         \* the list list_projects_in_backup returned last
    original_files      \* create_backup(): the source files it asked the container to hold

\* state of main() of pycharm_project_backup.py
VARIABLES
    argv,               \* the command line: per option, the values given (<<>>: not given)
    profile_settings,   \* the dictionary of the profile named by --use-profile
    settings            \* the effective settings main() passes to backup()

main_vars == <<argv, profile_settings, settings>>

\* state of main() of pycharm_config_backup.py with --backup and --max-backups
VARIABLES
    backup_dir,         \* the working directory: file name -> modification time
    clock,              \* the time of the next call, in minutes
    clean_call          \* the arguments of the last run

clean_vars == <<backup_dir, clock, clean_call>>

\* state of a call of ProjectUtils.parse_size
VARIABLES
    size_str,           \* the argument of parse_size
    size_result         \* what the call returned or raised

size_vars == <<size_str, size_result>>

cfg_vars == <<cfg_files, cfg_dirs, cfg_archive, cfg_call, cfg_pc, files_to_restore,
              cfg_written, cfg_result, cfg_faults, cfg_extracted, cfg_batch, cfg_listed,
              original_files>>

\* what only restore_projects() and list_projects_in_backup() change
batch_vars == <<cfg_batch, cfg_listed>>

vars == <<args, pycharm_dir_exists, absent, stat_errors, write_errors, output_dir_exists, archive,
          actions_run, op, pc, dry_run, project_dirs, project_queue, module_paths, walk_stack,
          root_path, path_explicitly_included, in_venv, file_queue, stats, log, result, prev, last,
          selected_projects, extract_errors, restore_projects, restore_queue, extracted,
          cfg_vars, main_vars, clean_vars, size_vars>>

backup_vars == <<op, pc, dry_run, project_dirs, project_queue, module_paths, walk_stack,
                 root_path, path_explicitly_included, in_venv, file_queue, stats, log>>

restore_vars == <<selected_projects, extract_errors, restore_projects, restore_queue, extracted>>

history_vars == <<prev, last>>

env_vars == <<args, pycharm_dir_exists, absent, stat_errors, write_errors, main_vars,
              clean_vars, size_vars>>

NoFile == [exists |-> FALSE, open |-> FALSE, entries |-> <<>>]
\* the return value of a call that has not returned
NoResult == "none"

\* a bool return value
PyBool(b) == IF b THEN "True" ELSE "False"

\* the stats dictionary of backup()
ZeroStats ==
    [included_files |-> 0, excluded_size |-> 0, excluded_count |-> 0,
     included_custom_paths |-> 0, included_modules |-> 0]

\* no backup has completed
NoRun ==
    [dry_run |-> FALSE, project_dirs |-> <<>>, stats |-> ZeroStats, accepted |-> {},
     stat_failed |-> {}, write_failed |-> {}, result |-> NoResult]

\* venv_important_files of backup(), each as its path components
venv_important_files ==
    << <<"pyvenv.cfg">>, <<"requirements.txt">>, <<"Scripts", "activate">>,
       <<"Scripts", "activate.bat">>, <<"Scripts", "Activate.ps1">>, <<"bin", "activate">> >>

\* the directory names backup() looks for to set in_venv
in_venv_names == {"venv", ".venv", "env", ".env"}

\* file_path.match(f"*{venv_file}*"): the pattern is matched from the right,
\* component by component
MatchVenvFile(file_path, venv_file) ==
    IF Len(venv_file) = 1
    THEN Contains(Name(file_path), venv_file[1])
    ELSE /\ Len(file_path) >= 2
         /\ EndsWith(Name(Parent(file_path)), venv_file[1])
         /\ StartsWith(Name(file_path), venv_file[2])

\* ProjectUtils.get_project_dirs: the sub-directories of pycharm_dir that pass
\* the include/exclude lists
get_project_dirs(include_projects, exclude_projects) ==
    {p \in SubDirNames(<<>>) :
        /\ (include_projects # {} => p \in include_projects)
        /\ p \notin exclude_projects}

\* every ordering of a finite set: pycharm_dir.iterdir() promises no order
Orderings(S) ==
    {q \in [1..Cardinality(S) -> S] : \A i, j \in 1..Cardinality(S) : q[i] = q[j] => i = j}

(***************************************************************************)
(* PyCharmBackupRestoreManager.backup                                      *)
(***************************************************************************)

\* the absolute path of a path relative to pycharm_dir
Abs(rel) == args.pycharm_dir \o rel

\* what the last completed backup did
Outcome(res) ==
    [dry_run |-> dry_run,
     project_dirs |-> project_dirs,
     stats |-> stats,
     accepted |-> {[file |-> log[i].file, zip_path |-> log[i].zip_path] :
                      i \in {j \in 1..Len(log) : log[j].kind = "added"}},
     stat_failed |-> {log[i].file : i \in {j \in 1..Len(log) : log[j].kind = "stat error"}},
     write_failed |-> {log[i].file : i \in {j \in 1..Len(log) : log[j].kind = "write error"}},
     result |-> res]

\* lines 656-723: the existence check, the output directory, the statistics,
\* the project list (in the order iterdir() yields it) and the opening of the
\* container
BackupStart_mut_mkdir_first(dry, order) ==
    /\ pc = "idle"
    /\ op' = "backup"
    /\ dry_run' = dry
    /\ log' = <<>>
    /\ actions_run' = <<>>
    /\ stats' = ZeroStats
    /\ module_paths' = <<>>
    /\ walk_stack' = <<>>
    /\ file_queue' = <<>>
    /\ root_path' = <<>>
    /\ path_explicitly_included' = FALSE
    /\ in_venv' = FALSE
    /\ prev' = last
    /\ IF ~pycharm_dir_exists
       THEN /\ result' = "False"
            /\ pc' = "idle"
            /\ project_dirs' = <<>>
            /\ project_queue' = <<>>
            /\ last' = [dry_run |-> dry, project_dirs |-> <<>>, stats |-> ZeroStats,
                        accepted |-> {},
                        stat_failed |-> {}, write_failed |-> {}, result |-> "False"]
            /\ output_dir_exists' = (IF dry THEN output_dir_exists ELSE TRUE)
            /\ UNCHANGED archive
       ELSE /\ result' = NoResult
            /\ pc' = "walk"
            /\ project_dirs' = order
            /\ project_queue' = order
            /\ last' = NoRun
            /\ output_dir_exists' = (IF dry THEN output_dir_exists ELSE TRUE)
            /\ archive' = (IF dry THEN archive ELSE [exists |-> TRUE, open |-> TRUE, entries |-> <<>>])
    /\ UNCHANGED <<env_vars, restore_vars, cfg_vars>>

BackupStart(dry, order) ==
    /\ pc = "idle"
    /\ op' = "backup"
    /\ dry_run' = dry
    /\ log' = <<>>
    /\ actions_run' = <<>>
    /\ stats' = ZeroStats
    /\ module_paths' = <<>>
    /\ walk_stack' = <<>>
    /\ file_queue' = <<>>
    /\ root_path' = <<>>
    /\ path_explicitly_included' = FALSE
    /\ in_venv' = FALSE
    /\ prev' = last
    /\ IF ~pycharm_dir_exists
       THEN /\ result' = "False"
            /\ pc' = "idle"
            /\ project_dirs' = <<>>
            /\ project_queue' = <<>>
            /\ last' = [dry_run |-> dry, project_dirs |-> <<>>, stats |-> ZeroStats,
                        accepted |-> {},
                        stat_failed |-> {}, write_failed |-> {}, result |-> "False"]
            /\ UNCHANGED <<output_dir_exists, archive>>
       ELSE /\ result' = NoResult
            /\ pc' = "walk"
            /\ project_dirs' = order
            /\ project_queue' = order
            /\ last' = NoRun
            /\ output_dir_exists' = (IF dry THEN output_dir_exists ELSE TRUE)
            /\ archive' = (IF dry THEN archive ELSE [exists |-> TRUE, open |-> TRUE, entries |-> <<>>])
    /\ UNCHANGED <<env_vars, restore_vars, cfg_vars>>

ModulePrefixes_mut_names(project_modules) ==
    [i \in 1..Len(project_modules) |-> Name(project_modules[i])]

\* lines 735-737: str(module_dir.relative_to(pycharm_dir)) of every module
ModulePrefixes(project_modules) ==
    [i \in 1..Len(project_modules) |-> JoinSlash(project_modules[i])]

\* lines 725-739: the next project of project_dirs and its module detection
NextProject ==
    /\ pc = "walk"
    /\ walk_stack = <<>>
    /\ project_queue # <<>>
    /\ LET project_name == Head(project_queue)
           project_modules == IF args.auto_include_modules
                              THEN find_all_modules(<<project_name>>)
                              ELSE <<>>
       IN /\ module_paths' = module_paths \o ModulePrefixes(project_modules)
          /\ stats' = [stats EXCEPT !.included_modules = @ + Len(project_modules)]
          /\ walk_stack' = << <<project_name>> >>
          /\ project_queue' = Tail(project_queue)
    /\ UNCHANGED <<op, pc, dry_run, project_dirs, root_path, path_explicitly_included, in_venv, file_queue, log,
                   output_dir_exists, archive, actions_run, result, history_vars,
                   env_vars, restore_vars, cfg_vars>>

\* lines 748-752: path_explicitly_included of the directory rel_path
ExplicitlyIncluded(rel_path) ==
    \/ is_in_include_paths(rel_path, args.include_paths)
    \/ is_in_include_paths(rel_path, module_paths)

KeptDirs_mut_no_prune(rel_path, explicit) == SubDirNames(rel_path)

\* lines 754-760: dirs[:] after the pruning
KeptDirs(rel_path, explicit) ==
    IF explicit
    THEN SubDirNames(rel_path)
    ELSE {d \in SubDirNames(rel_path) :
            \/ ~is_excluded_dir(d, args.include_venv, args.custom_excludes)
            \/ is_in_include_paths(rel_path \o <<d>>, args.include_paths)
            \/ is_in_include_paths(rel_path \o <<d>>, module_paths)}

\* lines 742-764: os.walk yields the next directory; pruning of dirs, in_venv
VisitDir ==
    /\ pc = "walk"
    /\ walk_stack # <<>>
    /\ LET root == Head(walk_stack)
           explicit == ExplicitlyIncluded(root)
           kept == SortNames(KeptDirs(root, explicit))
           files == SortNames(FileNames(root))
       IN /\ root_path' = root
          /\ path_explicitly_included' = explicit
          /\ in_venv' = (\E venv_dir \in in_venv_names : venv_dir \in Range(Abs(root)))
          /\ walk_stack' = [i \in 1..Len(kept) |-> root \o <<kept[i]>>] \o Tail(walk_stack)
          /\ file_queue' = files
          /\ pc' = IF files = <<>> THEN "walk" ELSE "files"
    /\ UNCHANGED <<op, project_dirs, dry_run, project_queue, module_paths, stats, log,
                   output_dir_exists, archive, actions_run, result, history_vars,
                   env_vars, restore_vars, cfg_vars>>

\* lines 835-836: some venv_important_files pattern matches file_path
MatchesVenvFile(file_path) ==
    \E i \in 1..Len(venv_important_files) : MatchVenvFile(file_path, venv_important_files[i])

\* lines 780-795 and 816-830: the outcome of the size check
SizeCheck_mut_ge(zip_path) ==
    IF zip_path \in stat_errors THEN "stat error"
    ELSE IF Tree[zip_path].size >= args.max_size_bytes THEN "too large"
    ELSE "ok"

SizeCheck(zip_path) ==
    IF zip_path \in stat_errors THEN "stat error"
    ELSE IF Tree[zip_path].size > args.max_size_bytes THEN "too large"
    ELSE "ok"

WriteOutcome_mut_dry_skips(zip_path, dry, via) ==
    IF dry THEN "dropped"
    ELSE IF zip_path \in write_errors THEN "write error" ELSE via

\* lines 798-803, 837-842, 850-855: zipf.write unless dry_run
WriteOutcome(zip_path, dry, via) ==
    IF ~dry /\ zip_path \in write_errors THEN "write error" ELSE via

Decide_mut_no_size(zip_path, explicit, venv, dry) ==
    IF should_exclude_file(Abs(zip_path), args.custom_excludes) THEN "pattern"
    ELSE IF explicit THEN WriteOutcome(zip_path, dry, "custom path")
    ELSE IF SizeCheck(zip_path) # "ok" THEN SizeCheck(zip_path)
    ELSE IF venv /\ args.include_venv
         THEN (IF MatchesVenvFile(Abs(zip_path))
               THEN WriteOutcome(zip_path, dry, "venv")
               ELSE "dropped")
    ELSE IF is_important_file(Name(zip_path), args.include_venv)
         THEN WriteOutcome(zip_path, dry, "important")
    ELSE "dropped"

\* lines 766-859: what the loop body does with one file of the directory
\* (zip_path is rel_path / file, file_path is pycharm_dir / zip_path)
Decide(zip_path, explicit, venv, dry) ==
    IF explicit
    THEN (IF should_exclude_file(Abs(zip_path), args.custom_excludes) THEN "pattern"
          ELSE IF SizeCheck(zip_path) # "ok" THEN SizeCheck(zip_path)
          ELSE WriteOutcome(zip_path, dry, "custom path"))
    ELSE IF should_exclude_file(Abs(zip_path), args.custom_excludes) THEN "pattern"
    ELSE IF SizeCheck(zip_path) # "ok" THEN SizeCheck(zip_path)
    ELSE IF venv /\ args.include_venv
         THEN (IF MatchesVenvFile(Abs(zip_path))
               THEN WriteOutcome(zip_path, dry, "venv")
               ELSE "dropped")
    ELSE IF is_important_file(Name(zip_path), args.include_venv)
         THEN WriteOutcome(zip_path, dry, "important")
    ELSE "dropped"

Accepting == {"custom path", "venv", "important"}

\* the stats dictionary after one file with the given outcome
StatsAfter(st, outcome, file_size) ==
    CASE outcome = "too large" ->
            [st EXCEPT !.excluded_size = @ + file_size, !.excluded_count = @ + 1]
      [] outcome = "custom path" ->
            [st EXCEPT !.included_files = @ + 1, !.included_custom_paths = @ + 1]
      [] outcome \in {"venv", "important"} ->
            [st EXCEPT !.included_files = @ + 1]
      [] OTHER -> st

\* what is reported for one file: "Added ...", "Skipped (too large)", the
\* warning of a failed stat, the error of a failed write, or nothing
LogAfter(lg, outcome, zip_path) ==
    CASE outcome \in Accepting ->
            Append(lg, [kind |-> "added", via |-> outcome, file |-> zip_path,
                        zip_path |-> JoinSlash(zip_path)])
      [] outcome \in {"too large", "stat error", "write error"} ->
            Append(lg, [kind |-> outcome, via |-> "none", file |-> zip_path,
                        zip_path |-> JoinSlash(zip_path)])
      [] OTHER -> lg

\* zipf.write(file_path, zip_path): a new entry named str(zip_path)
ZipWrite_mut_basename(zf, zip_path) ==
    [zf EXCEPT !.entries = Append(@, [name |-> zip_path[Len(zip_path)],
                                      data |-> Tree[zip_path].data,
                                      src |-> zip_path])]

ZipWrite(zf, zip_path) ==
    [zf EXCEPT !.entries = Append(@, [name |-> JoinSlash(zip_path),
                                      data |-> Tree[zip_path].data,
                                      src |-> zip_path])]

ProcessFile_mut_error_ends_directory ==
    /\ pc = "files"
    /\ LET zip_path == root_path \o <<Head(file_queue)>>
           outcome == Decide(zip_path, path_explicitly_included, in_venv, dry_run)
           failed == outcome \in {"stat error", "write error"}
       IN /\ stats' = StatsAfter(stats, outcome, Tree[zip_path].size)
          /\ log' = LogAfter(log, outcome, zip_path)
          /\ archive' = IF ~dry_run /\ outcome \in Accepting
                        THEN ZipWrite(archive, zip_path)
                        ELSE archive
          /\ file_queue' = IF failed THEN <<>> ELSE Tail(file_queue)
          /\ pc' = IF failed \/ Tail(file_queue) = <<>> THEN "walk" ELSE "files"
    /\ UNCHANGED <<op, project_dirs, dry_run, project_queue, module_paths, walk_stack, root_path,
                   path_explicitly_included, in_venv,
                   output_dir_exists, actions_run, result, history_vars,
                   env_vars, restore_vars, cfg_vars>>

\* lines 766-859: one iteration of `for file in files`
ProcessFile ==
    /\ pc = "files"
    /\ LET zip_path == root_path \o <<Head(file_queue)>>
           outcome == Decide(zip_path, path_explicitly_included, in_venv, dry_run)
       IN /\ stats' = StatsAfter(stats, outcome, Tree[zip_path].size)
          /\ log' = LogAfter(log, outcome, zip_path)
          /\ archive' = IF ~dry_run /\ outcome \in Accepting
                        THEN ZipWrite(archive, zip_path)
                        ELSE archive
    /\ file_queue' = Tail(file_queue)
    /\ pc' = IF Tail(file_queue) = <<>> THEN "walk" ELSE "files"
    /\ UNCHANGED <<op, project_dirs, dry_run, project_queue, module_paths, walk_stack, root_path,
                   path_explicitly_included, in_venv,
                   output_dir_exists, actions_run, result, history_vars,
                   env_vars, restore_vars, cfg_vars>>

\* PostBackupActions.execute_post_backup_action for every action, in order;
\* each command runs while the container is in the state `zf`
RunActions(actions, zf) ==
    [i \in 1..Len(actions) |-> [command |-> actions[i], container_open |-> zf.open]]

BackupFinish_mut_actions_in_dry_run ==
    /\ pc = "walk"
    /\ walk_stack = <<>>
    /\ project_queue = <<>>
    /\ actions_run' = [i \in 1..Len(args.post_backup_actions) |->
                          [command |-> args.post_backup_actions[i], container_open |-> FALSE]]
    /\ archive' = IF dry_run THEN archive ELSE [archive EXCEPT !.open = FALSE]
    /\ result' = "True"
    /\ last' = Outcome("True")
    /\ pc' = "idle"
    /\ UNCHANGED <<op, project_dirs, dry_run, project_queue, module_paths, walk_stack, root_path,
                   path_explicitly_included, in_venv, file_queue, stats, log,
                   output_dir_exists, prev, env_vars, restore_vars, cfg_vars>>

\* lines 861-890: the summary, the post-backup actions (inside the `with`
\* block, before the container is closed), the end of the `with` block and
\* the return
BackupFinish ==
    /\ pc = "walk"
    /\ walk_stack = <<>>
    /\ project_queue = <<>>
    /\ actions_run' = IF dry_run THEN <<>> ELSE RunActions(args.post_backup_actions, archive)
    /\ archive' = IF dry_run THEN archive ELSE [archive EXCEPT !.open = FALSE]
    /\ result' = "True"
    /\ last' = Outcome("True")
    /\ pc' = "idle"
    /\ UNCHANGED <<op, project_dirs, dry_run, project_queue, module_paths, walk_stack, root_path,
                   path_explicitly_included, in_venv, file_queue, stats, log,
                   output_dir_exists, prev, env_vars, restore_vars, cfg_vars>>

(***************************************************************************)
(* PyCharmBackupRestoreManager.restore                                     *)
(***************************************************************************)

\* Path(file_path).parts
Parts(name) == SplitSlash(name)

\* zipf.namelist()
NameList(zf) == [i \in 1..Len(zf.entries) |-> zf.entries[i].name]

\* zipf.getinfo(name): the last entry written under that name
GetInfo(zf, name) ==
    zf.entries[Max({i \in 1..Len(zf.entries) : zf.entries[i].name = name})]

\* zipf.extract(member, extract_dir): the path written, relative to
\* extract_dir; empty, "." and ".." components are dropped
ExtractTarget(name) == SelectSeq(SplitSlash(name), LAMBDA c : c \notin {".", ".."})

RestoreProjectsOf_mut_prefix(zf, sel) ==
    LET projects == {Parts(f)[1] : f \in {n \in Range(NameList(zf)) : Len(Parts(n)) > 0}}
    IN IF sel # {} THEN {p \in projects : \E s \in sel : StartsWith(p, s)} ELSE projects

\* lines 925-942: the set `projects` for a given selection
RestoreProjectsOf(zf, sel) ==
    LET projects == {Parts(f)[1] : f \in {n \in Range(NameList(zf)) : Len(Parts(n)) > 0}}
    IN IF sel # {} THEN {p \in projects : p \in sel} ELSE projects

\* lines 911-952: the checks, the project selection and project_files
RestoreStart(sel, errs) ==
    /\ pc = "idle"
    /\ op' = "restore"
    /\ selected_projects' = sel
    /\ extract_errors' = errs
    /\ IF archive = NoFile
       THEN /\ result' = "False"
            /\ restore_projects' = {}
            /\ restore_queue' = <<>>
            /\ pc' = "idle"
       ELSE \E projects \in {RestoreProjectsOf(archive, sel)} :
               /\ restore_projects' = projects
               /\ IF sel # {} /\ projects = {}
                  THEN /\ result' = "False"
                       /\ restore_queue' = <<>>
                       /\ pc' = "idle"
                  ELSE /\ result' = NoResult
                       /\ restore_queue' =
                              SelectSeq(NameList(archive),
                                        LAMBDA f : Len(Parts(f)) > 0 /\ Parts(f)[1] \in projects)
                       /\ pc' = "restore"
    /\ UNCHANGED <<extracted, dry_run, project_dirs, project_queue, module_paths, walk_stack, root_path,
                   path_explicitly_included, in_venv, file_queue, stats, log,
                   output_dir_exists, archive, actions_run, history_vars, env_vars, cfg_vars>>

ExtractedAfter_mut_flatten(ex, zf, file_path) ==
    {e \in ex : e.path # <<Name(ExtractTarget(file_path))>>}
        \cup {[path |-> <<Name(ExtractTarget(file_path))>>, data |-> GetInfo(zf, file_path).data]}

\* zipf.extract(file_path, extract_dir): the files under extract_dir afterwards
ExtractedAfter(ex, zf, file_path) ==
    {e \in ex : e.path # ExtractTarget(file_path)}
        \cup {[path |-> ExtractTarget(file_path), data |-> GetInfo(zf, file_path).data]}

\* lines 954-971: one iteration of `for file_path in project_files`
RestoreEntry ==
    /\ pc = "restore"
    /\ restore_queue # <<>>
    /\ LET file_path == Head(restore_queue)
       IN extracted' =
              IF Parts(file_path)[1] \notin restore_projects \/ file_path \in extract_errors
              THEN extracted
              ELSE ExtractedAfter(extracted, archive, file_path)
    /\ restore_queue' = Tail(restore_queue)
    /\ UNCHANGED <<selected_projects, extract_errors, restore_projects, result,
                   op, pc, dry_run, project_dirs, project_queue, module_paths, walk_stack, root_path,
                   path_explicitly_included, in_venv, file_queue, stats, log,
                   output_dir_exists, archive, actions_run, history_vars, env_vars, cfg_vars>>

\* lines 973-979: the end of the loop and the return
RestoreFinish ==
    /\ pc = "restore"
    /\ restore_queue = <<>>
    /\ result' = "True"
    /\ pc' = "idle"
    /\ UNCHANGED <<restore_vars, op, dry_run, project_dirs, project_queue, module_paths, walk_stack, root_path,
                   path_explicitly_included, in_venv, file_queue, stats, log,
                   output_dir_exists, archive, actions_run, history_vars, env_vars, cfg_vars>>

(***************************************************************************)
(* pycharm_config_backup.py: os.path and the disk                          *)
(***************************************************************************)

RECURSIVE NormAcc(_, _)
\* os.path.normpath on components: "." is dropped, ".." removes the
\* component before it
NormAcc(parts, acc) ==
    IF Len(parts) = 0 THEN acc
    ELSE LET c == Head(parts)
         IN IF c = "." THEN NormAcc(Tail(parts), acc)
            ELSE IF c = ".." /\ Len(acc) > 0 /\ acc[Len(acc)] # ".."
                 THEN NormAcc(Tail(parts), SubSeq(acc, 1, Len(acc) - 1))
            ELSE NormAcc(Tail(parts), Append(acc, c))

NormParts(parts) == NormAcc(parts, <<>>)

\* the path the operating system resolves an absolute path to
Resolve(path) == "/" \o JoinSlash(NormParts(SplitSlash(path)))

\* os.path.join(a, b)
PathJoin(a, b) ==
    IF StartsWith(b, "/") THEN b
    ELSE IF Len(a) = 0 \/ EndsWith(a, "/") THEN a \o b
    ELSE a \o "/" \o b

RECURSIVE RFindSlash(_, _)
\* position of the last "/" among the first n characters of a str, 0 when
\* there is none
RFindSlash(p, n) ==
    IF n = 0 THEN 0 ELSE IF CharAt(p, n) = "/" THEN n ELSE RFindSlash(p, n - 1)

\* position of the last "/" of a str, 0 when there is none
LastSlash(p) == RFindSlash(p, Len(p))

\* os.path.basename
BaseName(p) == SubSeq(p, LastSlash(p) + 1, Len(p))

RECURSIVE StripSlashes(_)
StripSlashes(p) ==
    IF Len(p) > 0 /\ EndsWith(p, "/") THEN StripSlashes(SubSeq(p, 1, Len(p) - 1)) ELSE p

\* os.path.dirname
DirName(p) ==
    LET head == SubSeq(p, 1, LastSlash(p))
    IN IF Len(StripSlashes(head)) = 0 THEN head ELSE StripSlashes(head)

\* length of the longest common component-wise prefix
CommonLen(p, q) ==
    Max({n \in 0..Len(p) : n <= Len(q) /\ SubSeq(p, 1, n) = SubSeq(q, 1, n)})

\* os.path.relpath(path, start), both absolute or both relative to the
\* current directory
RelPath(path, start) ==
    LET p == NormParts(SplitSlash(path))
        st == NormParts(SplitSlash(start))
        i == CommonLen(p, st)
        rel == [k \in 1..(Len(st) - i) |-> ".."] \o SubSeq(p, i + 1, Len(p))
    IN JoinSlash(rel)

RECURSIVE SeqOf(_)
\* a list holding the elements of a set, in some fixed order
SeqOf(S) ==
    IF S = {} THEN <<>>
    ELSE LET x == CHOOSE y \in S : TRUE IN <<x>> \o SeqOf(S \ {x})

\* every ancestor directory of an absolute path, and the path itself
RECURSIVE Ancestors(_)
Ancestors(p) ==
    IF LastSlash(p) <= 1 THEN {p} ELSE {p} \cup Ancestors(SubSeq(p, 1, LastSlash(p) - 1))

\* os.listdir(dir): names of the files and directories directly in dir
ListDir(dir) ==
    {BaseName(f) : f \in {x \in (DOMAIN cfg_files) \cup cfg_dirs :
                             StartsWith(x, dir \o "/") /\ DirName(x) = dir}}

\* os.path.exists
Exists(p) == p \in cfg_dirs \/ p \in DOMAIN cfg_files

\* os.path.isfile
IsFile(p) == p \in DOMAIN cfg_files

(***************************************************************************)
(* pycharm_config_backup.py: create_backup                                 *)
(***************************************************************************)

\* the projects_dir argument
ProjectsDir == "/home/dev/PycharmProjects"

\* the output_dir argument
OutputDir == "/home/dev/backups"

\* ~/.config/JetBrains
JetBrainsDir == "/home/dev/.config/JetBrains"

\* datetime.now().strftime("%Y-%m-%d_%H-%M") at the time of the call
Today == "2026-11-03_11-52"

\* default_important_files of find_idea_files
default_important_files ==
    <<"workspace.xml", "misc.xml", "modules.xml", ".name", "vcs.xml",
      "remote-mappings.xml", "deployment.xml", "jsLibraryMappings.xml",
      "dataSources.xml", "dataSources.ids">>

\* should_process_file without include or exclude patterns
should_process_file(file_path) == TRUE

\* the files find_idea_files collects from one <root>/.idea
IdeaFilesOf(idea_dir) ==
    LET run_config_dir == PathJoin(idea_dir, "runConfigurations")
        tools_dir == PathJoin(idea_dir, "tools")
        dictionaries_dir == PathJoin(idea_dir, "dictionaries")
        run_files == IF Exists(run_config_dir)
                     THEN SeqOf({PathJoin(run_config_dir, f) :
                                   f \in {x \in ListDir(run_config_dir) : EndsWith(x, ".xml")}})
                     ELSE <<>>
        tool_files == IF Exists(tools_dir)
                      THEN SeqOf({q \in {PathJoin(tools_dir, f) : f \in ListDir(tools_dir)} :
                                    IsFile(q)})
                      ELSE <<>>
        dict_files == IF Exists(dictionaries_dir)
                      THEN SeqOf({q \in {PathJoin(dictionaries_dir, f) :
                                            f \in ListDir(dictionaries_dir)} : IsFile(q)})
                      ELSE <<>>
        other == SelectSeq([i \in 1..Len(default_important_files) |->
                               PathJoin(idea_dir, default_important_files[i])],
                           LAMBDA q : Exists(q))
    IN SelectSeq(run_files \o tool_files \o dict_files \o other,
                 LAMBDA q : should_process_file(q))

RECURSIVE Flatten(_)
Flatten(seqs) == IF Len(seqs) = 0 THEN <<>> ELSE Head(seqs) \o Flatten(Tail(seqs))

\* find_idea_files(project_dir): every directory at or below project_dir
\* that has a .idea sub-directory contributes its configuration files
find_idea_files(project_dir) ==
    LET walk == SeqOf({d \in cfg_dirs :
                         /\ d = project_dir \/ StartsWith(d, project_dir \o "/")
                         /\ PathJoin(d, ".idea") \in cfg_dirs})
    IN CHOOSE idea_files \in
           {Flatten([i \in 1..Len(roots) |-> IdeaFilesOf(PathJoin(roots[i], ".idea"))]) :
              roots \in {walk}} : TRUE

\* get_pycharm_config_dirs (Linux branch)
get_pycharm_config_dirs ==
    IF Exists(JetBrainsDir)
    THEN SeqOf({PathJoin(JetBrainsDir, d) :
                  d \in {x \in ListDir(JetBrainsDir) : StartsWith(x, "PyCharm")}})
    ELSE <<>>

\* get_recent_projects_files as the list of (file, arcname) pairs that
\* create_backup derives from it (lines 446-457)
RecentFiles ==
    LET of(config_dir) ==
            LET options_dir == PathJoin(config_dir, "options")
                names == SelectSeq(<<"recentProjects.xml", "recentSolutions.xml">>,
                                   LAMBDA n : Exists(PathJoin(options_dir, n)))
            IN IF ~Exists(options_dir) THEN <<>>
               ELSE [i \in 1..Len(names) |->
                        [file |-> PathJoin(options_dir, names[i]),
                         arcname |-> PathJoin(PathJoin("_pycharm_recent_projects",
                                                       BaseName(config_dir)),
                                              BaseName(PathJoin(options_dir, names[i])))]]
    IN CHOOSE recent_files \in
           {Flatten([i \in 1..Len(dirs) |-> of(dirs[i])]) : dirs \in {get_pycharm_config_dirs}} :
           TRUE

\* lines 498-506: the archive name of a project configuration file
IdeaArcname(file, projects_dir) == RelPath(file, DirName(projects_dir))

\* verify_backup: the reopened container must not hold fewer entries than
\* the files it was asked to hold
verify_backup_mut_more(backup_files, files) == Len(backup_files) > Len(files)

verify_backup(backup_files, files) == ~(Len(backup_files) < Len(files))

\* what the container holds when it is reopened: everything written, or,
\* after a storage fault, everything but the last entry
Stored(entries, intact) ==
    IF intact \/ Len(entries) = 0 THEN entries ELSE SubSeq(entries, 1, Len(entries) - 1)

\* os.walk(dir): every file at or below dir
FilesBelow(dir) == {f \in DOMAIN cfg_files : StartsWith(f, dir \o "/")}

\* the names in dir that end with ".xml", as paths
XmlIn(dir) ==
    IF Exists(dir)
    THEN {PathJoin(dir, f) : f \in {x \in ListDir(dir) : EndsWith(x, ".xml")}}
    ELSE {}

\* the names of a list that exist in dir, as paths
ExistingIn(dir, names) == {q \in {PathJoin(dir, n) : n \in names} : Exists(q)}

\* get_global_settings_files: one list per category, config directory by
\* config directory
GlobalSettingsCategory(category, config_dir) ==
    LET options_dir == PathJoin(config_dir, "options")
        has_options == Exists(options_dir)
    IN CASE category = "ide_settings" ->
              IF has_options
              THEN ExistingIn(options_dir,
                              {"ide.general.xml", "editor.xml", "keymap.xml",
                               "colors.scheme.xml", "editor-font.xml", "ui.lnf.xml",
                               "updates.xml", "terminal.xml"})
              ELSE {}
         [] category = "code_style" ->
              IF has_options
              THEN ExistingIn(options_dir, {"code.style.schemes.xml"})
                       \cup XmlIn(PathJoin(options_dir, "code.style.schemes"))
              ELSE {}
         [] category = "templates" ->
              IF has_options
              THEN XmlIn(PathJoin(options_dir, "templates"))
                       \cup FilesBelow(PathJoin(options_dir, "fileTemplates"))
              ELSE {}
         [] category = "plugin_settings" ->
              IF has_options
              THEN ExistingIn(options_dir, {"pluginSettings.xml", "other.xml"})
              ELSE {}
         [] category = "scratches" ->
              FilesBelow(PathJoin(config_dir, "scratches"))
                  \cup FilesBelow(PathJoin(config_dir, "consoles"))
         [] OTHER -> {}

\* the settings_files dictionary, flattened in the order of its keys
get_global_settings_files ==
    LET cats == <<"ide_settings", "code_style", "templates", "dictionaries",
                  "plugin_settings", "scratches", "other">>
        of(c, dirs) == Flatten([i \in 1..Len(dirs) |-> SeqOf(GlobalSettingsCategory(c, dirs[i]))])
    IN CHOOSE settings_files \in
           {Flatten([k \in 1..Len(cats) |-> of(cats[k], dirs)]) :
              dirs \in {get_pycharm_config_dirs}} : TRUE

\* lines 459-478: the (file, arcname) pairs of the global settings; the
\* version is that of the first config directory whose path is a string
\* prefix of the file
GlobalSettingsFiles ==
    LET hit(file, dirs) == {i \in 1..Len(dirs) : StartsWith(file, dirs[i])}
        first(file, dirs) ==
            dirs[CHOOSE i \in hit(file, dirs) : \A j \in hit(file, dirs) : i <= j]
        pair(file, config_dir) ==
            [file |-> file,
             arcname |-> PathJoin(PathJoin("_pycharm_global_settings", BaseName(config_dir)),
                                  RelPath(file, config_dir))]
        pairs(files, dirs) ==
            Flatten([k \in 1..Len(files) |->
                        IF hit(files[k], dirs) = {} THEN <<>>
                        ELSE <<pair(files[k], first(files[k], dirs))>>])
    IN CHOOSE global_settings_files \in
           {pairs(files, dirs) : files \in {get_global_settings_files},
                                 dirs \in {get_pycharm_config_dirs}} : TRUE

\* the call record of create_backup
CreateCall(dry, recent, global) ==
    [op |-> "create_backup", dry_run |-> dry, backup_recent_projects |-> recent,
     backup_global_settings |-> global, project_name |-> "", show_diff |-> FALSE]

\* os.makedirs(dir): the directory and its missing ancestors
MakeDirs(dirs, dir) == dirs \cup Ancestors(dir)

\* create_backup(projects_dir, None, output_dir, None, None, recent, global, dry)
CreateBackup(dry, recent, global, mkdir_ok, intact) ==
    /\ cfg_pc = "idle"
    /\ cfg_call' = CreateCall(dry, recent, global)
    /\ \E idea_files \in {find_idea_files(ProjectsDir)},
          recent_files \in {IF recent THEN RecentFiles ELSE <<>>},
          global_settings_files \in {IF global THEN GlobalSettingsFiles ELSE <<>>} :
       LET need_dir == ~Exists(OutputDir)
           output_file == PathJoin(OutputDir, "pycharm_idea_backup_" \o Today \o ".zip")
           all_files_count == Len(idea_files) + Len(recent_files) + Len(global_settings_files)
           entries == [i \in 1..Len(idea_files) |->
                          [name |-> IdeaArcname(idea_files[i], ProjectsDir),
                           data |-> cfg_files[idea_files[i]],
                           src |-> idea_files[i]]]
                      \o [i \in 1..Len(recent_files) |->
                             [name |-> recent_files[i].arcname,
                              data |-> cfg_files[recent_files[i].file],
                              src |-> recent_files[i].file]]
                      \o [i \in 1..Len(global_settings_files) |->
                             [name |-> global_settings_files[i].arcname,
                              data |-> cfg_files[global_settings_files[i].file],
                              src |-> global_settings_files[i].file]]
       IN IF ProjectsDir \notin cfg_dirs
          THEN /\ cfg_result' = "False"
               /\ cfg_written' = {}
               /\ UNCHANGED <<cfg_dirs, cfg_archive, original_files>>
          ELSE IF need_dir /\ ~mkdir_ok
          THEN /\ cfg_result' = "False"
               /\ cfg_written' = {}
               /\ UNCHANGED <<cfg_dirs, cfg_archive, original_files>>
          ELSE /\ cfg_dirs' = IF need_dir THEN MakeDirs(cfg_dirs, OutputDir) ELSE cfg_dirs
               /\ IF all_files_count = 0
                  THEN /\ cfg_result' = "False"
                       /\ cfg_written' = (IF need_dir THEN {OutputDir} ELSE {})
                       /\ UNCHANGED <<cfg_archive, original_files>>
                  ELSE IF dry
                  THEN /\ cfg_result' = "True"
                       /\ cfg_written' = (IF need_dir THEN {OutputDir} ELSE {})
                       /\ UNCHANGED <<cfg_archive, original_files>>
                  ELSE /\ cfg_archive' = [exists |-> TRUE, open |-> FALSE,
                                          entries |-> Stored(entries, intact)]
                       /\ cfg_written' = (IF need_dir THEN {OutputDir} ELSE {}) \cup {output_file}
                       /\ original_files' = [i \in 1..Len(entries) |-> entries[i].src]
                       /\ cfg_result' = PyBool(verify_backup(Stored(entries, intact),
                                                             [i \in 1..Len(entries) |-> entries[i].src]))
    /\ UNCHANGED <<cfg_files, cfg_pc, files_to_restore, cfg_faults, cfg_extracted, batch_vars>>
    /\ UNCHANGED <<env_vars, output_dir_exists,
                   archive, actions_run, result, history_vars, backup_vars, restore_vars>>

(***************************************************************************)
(* pycharm_config_backup.py: restore_project                               *)
(***************************************************************************)

\* the call record of restore_project
RestoreCall(project_name, dry, diff) ==
    [op |-> "restore_project", dry_run |-> dry, backup_recent_projects |-> FALSE,
     backup_global_settings |-> FALSE, project_name |-> project_name, show_diff |-> diff]

\* zipf.open(name).read(): the content of the last entry of that name
ZipData(zf, name) == zf[Max({i \in 1..Len(zf) : zf[i].name = name})].data

\* line 1041
ProjectPathInZip(projects_dir, project_name) == BaseName(projects_dir) \o "/" \o project_name

\* lines 1050-1052: the target path of an archive entry of the project
TargetPath(filename, projects_dir, project_name) ==
    PathJoin(PathJoin(PathJoin(projects_dir, project_name), ".idea"),
             RelPath(filename, ProjectPathInZip(projects_dir, project_name)))

\* lines 1045-1053: files_to_restore
FilesToRestore(zf, projects_dir, project_name) ==
    LET hits == SelectSeq([i \in 1..Len(zf) |-> zf[i].name],
                          LAMBDA n : StartsWith(n, ProjectPathInZip(projects_dir, project_name)))
    IN [i \in 1..Len(hits) |->
           [zip_path |-> hits[i],
            target_path |-> TargetPath(hits[i], projects_dir, project_name)]]

\* restore_projects() is not running
NoBatch ==
    [active |-> FALSE, projects |-> <<>>, queue |-> <<>>, projects_restored |-> 0,
     restore_recent_projects_files |-> FALSE, restore_global_settings_files |-> FALSE,
     dry_run |-> FALSE, show_diff |-> FALSE]

\* where restore_project() returns to: the loop of restore_projects() or
\* the caller
ReturnTo == IF cfg_batch.active THEN "batch" ELSE "idle"

\* lines 949-953: restore_projects() counts the call that returned res
Returned(res) ==
    IF cfg_batch.active
    THEN [cfg_batch EXCEPT !.queue = Tail(@),
                           !.projects_restored = IF res = "True" THEN @ + 1 ELSE @]
    ELSE cfg_batch

\* an exception that no handler of this file catches ends the call, and
\* restore_projects() with it
Raise ==
    /\ cfg_result' = "raised"
    /\ cfg_pc' = "idle"
    /\ cfg_batch' = [cfg_batch EXCEPT !.active = FALSE]

\* lines 1063-1086: the entries show_diff extracts to temp_dir and compares
Compared(found) == SelectSeq(found, LAMBDA f : Exists(Resolve(f.target_path)))

\* lines 1023-1087 and 1103-1114: the checks, files_to_restore, the
\* comparison of show_diff, and the whole of a dry run. cmp_fault: a copy to
\* temp_dir, a getsize or a compare_files raises something else than
\* UnicodeDecodeError
RestoreProjectBody(project_name, dry, diff, faults, cmp_fault) ==
    /\ cfg_call' = RestoreCall(project_name, dry, diff)
    /\ cfg_written' = (IF cfg_batch.active THEN cfg_written ELSE {})
    /\ cfg_extracted' = (IF cfg_batch.active THEN cfg_extracted ELSE {})
    /\ cfg_faults' = faults
    /\ \E found \in {FilesToRestore(cfg_archive.entries, ProjectsDir, project_name)} :
       LET project_path == PathJoin(ProjectsDir, project_name)
           idea_dir == PathJoin(project_path, ".idea")
       IN IF ~Exists(project_path) \/ ~Exists(idea_dir) \/ Len(found) = 0
          THEN /\ cfg_result' = "False"
               /\ files_to_restore' = <<>>
               /\ cfg_pc' = ReturnTo
               /\ cfg_batch' = Returned("False")
          ELSE IF diff /\ cmp_fault /\ Len(Compared(found)) > 0
          THEN /\ files_to_restore' = found
               /\ Raise
          ELSE IF dry
          THEN /\ cfg_result' = "True"
               /\ files_to_restore' = found
               /\ cfg_pc' = ReturnTo
               /\ cfg_batch' = Returned("True")
          ELSE /\ cfg_result' = NoResult
               /\ files_to_restore' = found
               /\ cfg_pc' = "restoring"
               /\ UNCHANGED cfg_batch
    /\ UNCHANGED <<cfg_files, cfg_dirs, cfg_archive, cfg_listed, original_files>>
    /\ UNCHANGED <<env_vars, output_dir_exists,
                   archive, actions_run, result, history_vars, backup_vars, restore_vars>>

\* restore_project(projects_dir, project_name, backup_file, dry, diff) called
\* on its own
RestoreProjectStart(project_name, dry, diff, faults, cmp_fault) ==
    /\ cfg_pc = "idle"
    /\ cfg_archive # NoFile
    /\ RestoreProjectBody(project_name, dry, diff, faults, cmp_fault)

\* lines 1091-1100: one iteration of the restore loop; nothing catches what
\* zipf.open, open or copyfileobj raise
RestoreProjectFile ==
    /\ cfg_pc = "restoring"
    /\ files_to_restore # <<>>
    /\ \E target \in {Resolve(Head(files_to_restore).target_path)} :
       LET zip_path == Head(files_to_restore).zip_path
       IN /\ cfg_dirs' = MakeDirs(cfg_dirs, DirName(target))
          /\ IF zip_path \in cfg_faults
             THEN /\ Raise
                  /\ UNCHANGED <<cfg_files, cfg_written, cfg_extracted, files_to_restore>>
             ELSE /\ cfg_files' = (target :> ZipData(cfg_archive.entries, zip_path)) @@ cfg_files
                  /\ cfg_written' = cfg_written \cup {target}
                  /\ cfg_extracted' = cfg_extracted \cup {zip_path}
                  /\ files_to_restore' = Tail(files_to_restore)
                  /\ UNCHANGED <<cfg_pc, cfg_result, cfg_batch>>
    /\ UNCHANGED <<cfg_archive, cfg_call, cfg_faults, cfg_listed, original_files>>
    /\ UNCHANGED <<env_vars, output_dir_exists,
                   archive, actions_run, result, history_vars, backup_vars, restore_vars>>

\* lines 1102 and 1110-1114: the end of the loop and the return
RestoreProjectFinish ==
    /\ cfg_pc = "restoring"
    /\ files_to_restore = <<>>
    /\ cfg_result' = "True"
    /\ cfg_pc' = ReturnTo
    /\ cfg_batch' = Returned("True")
    /\ UNCHANGED <<cfg_files, cfg_dirs, cfg_archive, cfg_call, files_to_restore, cfg_written,
                   cfg_faults, cfg_extracted, cfg_listed, original_files>>
    /\ UNCHANGED <<env_vars, output_dir_exists,
                   archive, actions_run, result, history_vars, backup_vars, restore_vars>>

(***************************************************************************)
(* pycharm_config_backup.py: list_projects_in_backup, restore_projects,    *)
(* restore_recent_projects, restore_global_settings                        *)
(***************************************************************************)

\* the characters of names, in the order of their code points
Alphabet == "-.0123456789ABCDEFGHIJKLMNOPQRSTUVWXYZ_abcdefghijklmnopqrstuvwxyz"

\* ord(c), up to an order-preserving renumbering
Ord(c) == CHOOSE i \in 1..Len(Alphabet) : CharAt(Alphabet, i) = c

RECURSIVE StrLess(_, _)
\* a < b for two str
StrLess(a, b) ==
    IF Len(b) = 0 THEN FALSE
    ELSE IF Len(a) = 0 THEN TRUE
    ELSE IF CharAt(a, 1) # CharAt(b, 1) THEN Ord(CharAt(a, 1)) < Ord(CharAt(b, 1))
    ELSE StrLess(SubSeq(a, 2, Len(a)), SubSeq(b, 2, Len(b)))

RECURSIVE Sorted(_)
\* sorted(list(S)) for a set of str
Sorted(S) ==
    IF S = {} THEN <<>>
    ELSE LET m == CHOOSE x \in S : \A y \in S \ {x} : StrLess(x, y)
         IN <<m>> \o Sorted(S \ {m})

\* the names of the two reserved namespaces
IsRecentName(name) == StartsWith(name, "_pycharm_recent_projects/")

IsGlobalName(name) == StartsWith(name, "_pycharm_global_settings/")

\* lines 866-884: the second component of every name outside the reserved
\* namespaces, sorted
list_projects_in_backup(zf) ==
    LET names == {zf[i].name : i \in 1..Len(zf)}
        plain == {n \in names : ~IsRecentName(n) /\ ~IsGlobalName(n)}
    IN Sorted({SplitSlash(n)[2] : n \in {x \in plain : Len(SplitSlash(x)) >= 2}})

\* the call record of list_projects_in_backup
ListCall ==
    [op |-> "list_projects_in_backup", dry_run |-> FALSE, backup_recent_projects |-> FALSE,
     backup_global_settings |-> FALSE, project_name |-> "", show_diff |-> FALSE]

\* list_projects_in_backup(backup_file)
ListProjects ==
    /\ cfg_pc = "idle"
    /\ cfg_call' = ListCall
    /\ cfg_listed' = (IF cfg_archive.exists THEN list_projects_in_backup(cfg_archive.entries)
                      ELSE <<>>)
    /\ UNCHANGED <<cfg_files, cfg_dirs, cfg_archive, cfg_pc, files_to_restore, cfg_written,
                   cfg_result, cfg_faults, cfg_extracted, cfg_batch, original_files>>
    /\ UNCHANGED <<env_vars, output_dir_exists,
                   archive, actions_run, result, history_vars, backup_vars, restore_vars>>

\* the call record of restore_projects
BatchCall(recent, global, dry, diff) ==
    [op |-> "restore_projects", dry_run |-> dry, backup_recent_projects |-> recent,
     backup_global_settings |-> global, project_name |-> "", show_diff |-> diff]

\* lines 914-946: restore_projects(projects_dir, projects, backup_file,
\* recent, global, dry, diff) up to its loop; projects = <<>> stands for
\* 'all'
RestoreProjectsStart(projects, recent, global, dry, diff, faults) ==
    /\ cfg_pc = "idle"
    /\ cfg_call' = BatchCall(recent, global, dry, diff)
    /\ cfg_written' = {}
    /\ cfg_extracted' = {}
    /\ cfg_faults' = faults
    /\ IF ~cfg_archive.exists
       THEN /\ cfg_result' = "False"
            /\ cfg_batch' = NoBatch
            /\ UNCHANGED cfg_pc
       ELSE /\ cfg_result' = NoResult
            /\ cfg_pc' = "batch"
            /\ \E todo \in {IF projects = <<>> THEN list_projects_in_backup(cfg_archive.entries)
                            ELSE projects} :
                  cfg_batch' = [active |-> TRUE, projects |-> todo, queue |-> todo,
                                projects_restored |-> 0,
                                restore_recent_projects_files |-> recent,
                                restore_global_settings_files |-> global,
                                dry_run |-> dry, show_diff |-> diff]
    /\ UNCHANGED <<cfg_files, cfg_dirs, cfg_archive, files_to_restore, cfg_listed, original_files>>
    /\ UNCHANGED <<env_vars, output_dir_exists,
                   archive, actions_run, result, history_vars, backup_vars, restore_vars>>

\* lines 949-953: the call of restore_project for the next project
BatchProject(cmp_fault) ==
    /\ cfg_pc = "batch"
    /\ cfg_batch.queue # <<>>
    /\ RestoreProjectBody(Head(cfg_batch.queue), cfg_batch.dry_run, cfg_batch.show_diff,
                          cfg_faults, cmp_fault)

RECURSIVE CopyAll(_, _, _, _)
\* a loop that copies archive entries to their targets; mkdirs tells whether
\* the loop body first makes the directory of the target, catch whether it
\* handles what a copy raises
CopyAll(todo, acc, mkdirs, catch) ==
    IF Len(todo) = 0 THEN acc
    ELSE LET h == Head(todo)
             made == [acc EXCEPT !.dirs = IF mkdirs THEN MakeDirs(@, DirName(h.target_path))
                                          ELSE @]
         IN IF h.zip_path \in cfg_faults
            THEN IF catch THEN CopyAll(Tail(todo), made, mkdirs, catch)
                 ELSE [made EXCEPT !.raised = TRUE]
            ELSE CopyAll(Tail(todo),
                         [made EXCEPT !.files = (h.target_path :>
                                                    ZipData(cfg_archive.entries, h.zip_path)) @@ @,
                                      !.written = @ \cup {h.target_path},
                                      !.extracted = @ \cup {h.zip_path},
                                      !.files_restored = @ + 1],
                         mkdirs, catch)

\* the state of the disk before a loop of copies
BeforeCopy ==
    [files |-> cfg_files, dirs |-> cfg_dirs, written |-> cfg_written,
     extracted |-> cfg_extracted, files_restored |-> 0, raised |-> FALSE]

\* the names of the archive that start with prefix, in the order of the
\* archive
NamesIn(zf, prefix) ==
    SelectSeq([i \in 1..Len(zf) |-> zf[i].name], LAMBDA name : StartsWith(name, prefix))

\* lines 622-645 without dry_run: each recent projects file goes to the
\* options directory of the first configuration directory that has one
RecentTargets(recent_files_in_backup, config_dirs) ==
    LET with_options == SelectSeq(config_dirs, LAMBDA d : Exists(PathJoin(d, "options")))
    IN IF Len(with_options) = 0 THEN <<>>
       ELSE [i \in 1..Len(recent_files_in_backup) |->
                [zip_path |-> recent_files_in_backup[i],
                 target_path |-> PathJoin(PathJoin(with_options[1], "options"),
                                          BaseName(recent_files_in_backup[i]))]]

\* restore_recent_projects(backup_file, dry_run): what it leaves behind
restore_recent_projects_mut_dry_copies(dry) ==
    CHOOSE after \in
        {IF Len(recent_files_in_backup) = 0 \/ Len(config_dirs) = 0
         THEN BeforeCopy
         ELSE CopyAll(RecentTargets(recent_files_in_backup, config_dirs), BeforeCopy, FALSE, FALSE) :
           recent_files_in_backup \in {NamesIn(cfg_archive.entries, "_pycharm_recent_projects/")},
           config_dirs \in {get_pycharm_config_dirs}} : TRUE

restore_recent_projects(dry) ==
    CHOOSE after \in
        {IF Len(recent_files_in_backup) = 0 \/ Len(config_dirs) = 0
         THEN BeforeCopy
         ELSE IF dry
         THEN [BeforeCopy EXCEPT
                  !.files_restored = Len(recent_files_in_backup) * Len(config_dirs)]
         ELSE CopyAll(RecentTargets(recent_files_in_backup, config_dirs), BeforeCopy, FALSE, FALSE) :
           recent_files_in_backup \in {NamesIn(cfg_archive.entries, "_pycharm_recent_projects/")},
           config_dirs \in {get_pycharm_config_dirs}} : TRUE

\* lines 720-728: the targets of the global settings of the versions that
\* have a configuration directory of the same name
GlobalTargets(global_settings_in_backup, config_dirs) ==
    LET version(name) == SplitSlash(name)[2]
        matching_dirs(name) == SelectSeq(config_dirs, LAMBDA d : BaseName(d) = version(name))
        known == SelectSeq(global_settings_in_backup,
                           LAMBDA n : Len(SplitSlash(n)) >= 3 /\ Len(matching_dirs(n)) > 0)
        rel_path(name) == JoinSlash(SubSeq(SplitSlash(name), 3, Len(SplitSlash(name))))
    IN [i \in 1..Len(known) |->
           [zip_path |-> known[i],
            target_path |-> PathJoin(matching_dirs(known[i])[1], rel_path(known[i]))]]

\* restore_global_settings(backup_file, dry_run): what it leaves behind
restore_global_settings(dry) ==
    CHOOSE after \in
        {IF Len(global_settings_in_backup) = 0 \/ Len(config_dirs) = 0
         THEN BeforeCopy
         ELSE IF dry
         THEN [BeforeCopy EXCEPT
                  !.files_restored = Len(GlobalTargets(global_settings_in_backup, config_dirs))]
         ELSE CopyAll(GlobalTargets(global_settings_in_backup, config_dirs), BeforeCopy, TRUE, TRUE) :
           global_settings_in_backup \in {NamesIn(cfg_archive.entries, "_pycharm_global_settings/")},
           config_dirs \in {get_pycharm_config_dirs}} : TRUE

\* lines 955-957: after the loop, restore_recent_projects if it was asked for
BatchRecent ==
    /\ cfg_pc = "batch"
    /\ cfg_batch.queue = <<>>
    /\ \E after \in {IF cfg_batch.restore_recent_projects_files
                     THEN restore_recent_projects(cfg_batch.dry_run) ELSE BeforeCopy} :
          /\ cfg_files' = after.files
          /\ cfg_written' = after.written
          /\ cfg_extracted' = after.extracted
          /\ IF after.raised
             THEN Raise
             ELSE /\ cfg_pc' = "batch_global"
                  /\ UNCHANGED <<cfg_result, cfg_batch>>
    /\ UNCHANGED <<cfg_dirs, cfg_archive, cfg_call, files_to_restore, cfg_faults, cfg_listed,
                   original_files>>
    /\ UNCHANGED <<env_vars, output_dir_exists,
                   archive, actions_run, result, history_vars, backup_vars, restore_vars>>

\* lines 959-964: restore_global_settings if it was asked for, and the return
BatchGlobal ==
    /\ cfg_pc = "batch_global"
    /\ \E after \in {IF cfg_batch.restore_global_settings_files
                     THEN restore_global_settings(cfg_batch.dry_run) ELSE BeforeCopy} :
          /\ cfg_files' = after.files
          /\ cfg_dirs' = after.dirs
          /\ cfg_written' = after.written
          /\ cfg_extracted' = after.extracted
    /\ cfg_result' = PyBool(cfg_batch.projects_restored > 0)
    /\ cfg_pc' = "idle"
    /\ cfg_batch' = [cfg_batch EXCEPT !.active = FALSE]
    /\ cfg_call' = BatchCall(cfg_batch.restore_recent_projects_files,
                             cfg_batch.restore_global_settings_files,
                             cfg_batch.dry_run, cfg_batch.show_diff)
    /\ UNCHANGED <<cfg_archive, files_to_restore, cfg_faults, cfg_listed, original_files>>
    /\ UNCHANGED <<env_vars, output_dir_exists,
                   archive, actions_run, result, history_vars, backup_vars, restore_vars>>

(***************************************************************************)
(* pycharm_project_backup.py: main (command line and profile)              *)
(***************************************************************************)

\* the options of the command line that have a profile counterpart
NoArgv ==
    [venv_include |-> FALSE, exclude_dirs |-> <<>>, max_size_to_include |-> <<>>,
     include_paths |-> <<>>, include_projects |-> <<>>, exclude_projects |-> <<>>,
     compression_level |-> <<>>, no_auto_modules |-> FALSE, post_action |-> <<>>]

\* the keys a profile may hold
ProfileKeys ==
    {"include_venv", "exclude_dirs", "include_paths", "include_projects", "exclude_projects",
     "max_size_to_include", "compression_level", "auto_include_modules", "post_backup_actions"}

\* main() has not computed any settings
NoSettings == [computed |-> FALSE]

MainIdle ==
    /\ argv = NoArgv
    /\ profile_settings = [k \in {} |-> FALSE]
    /\ settings = NoSettings

\* parser.parse_args(): a value option holds the value given or its default,
\* a list option the values given or its default, a flag whether it was given
parse_args(av) ==
    [venv_include |-> av.venv_include,
     exclude_dirs |-> av.exclude_dirs,
     max_size_to_include |-> IF av.max_size_to_include = <<>> THEN "20MB"
                             ELSE av.max_size_to_include[1],
     include_paths |-> av.include_paths,
     include_projects |-> av.include_projects,
     exclude_projects |-> av.exclude_projects,
     compression_level |-> IF av.compression_level = <<>> THEN 9
                           ELSE av.compression_level[1],
     no_auto_modules |-> av.no_auto_modules,
     post_actions |-> av.post_action]

\* `x = a; if not a and key in profile_settings: x = profile_settings[key]`
\* for a list option
ListOrProfile(a, profile, key) ==
    IF a = <<>> /\ key \in DOMAIN profile THEN profile[key] ELSE a

\* lines 1372-1430: the effective settings
EffectiveSettings(a, profile) ==
    [computed |-> TRUE,
     include_venv |->
        IF a.venv_include THEN TRUE
        ELSE IF "include_venv" \in DOMAIN profile THEN profile["include_venv"] ELSE FALSE,
     exclude_dirs |-> ListOrProfile(a.exclude_dirs, profile, "exclude_dirs"),
     include_paths |-> ListOrProfile(a.include_paths, profile, "include_paths"),
     include_projects |-> ListOrProfile(a.include_projects, profile, "include_projects"),
     exclude_projects |-> ListOrProfile(a.exclude_projects, profile, "exclude_projects"),
     max_size_to_include |->
        IF Len(a.max_size_to_include) = 0 /\ "max_size_to_include" \in DOMAIN profile
        THEN profile["max_size_to_include"]
        ELSE a.max_size_to_include,
     compression_level |->
        IF a.compression_level = 9 /\ "compression_level" \in DOMAIN profile
        THEN profile["compression_level"]
        ELSE a.compression_level,
     auto_include_modules |->
        IF "auto_include_modules" \in DOMAIN profile
        THEN profile["auto_include_modules"]
        ELSE ~a.no_auto_modules,
     post_actions |-> ListOrProfile(a.post_actions, profile, "post_backup_actions")]

\* main() with --use-profile, up to its call of backup()
Main ==
    /\ settings = NoSettings
    /\ settings' = EffectiveSettings(parse_args(argv), profile_settings)
    /\ UNCHANGED <<argv, profile_settings>>
    /\ UNCHANGED <<args, pycharm_dir_exists, absent, stat_errors, write_errors,
                   output_dir_exists, archive, actions_run, result, history_vars,
                   backup_vars, restore_vars, cfg_vars, clean_vars, size_vars>>

(***************************************************************************)
(* pycharm_config_backup.py: main with --backup, clean_old_backups         *)
(***************************************************************************)

\* the number of runs of a session
MaxRuns == 3

\* the first value of the clock
FirstMinute == 10

Digits == "0123456789"

\* f"{n:02d}" for n below 100
TwoDigits(n) == CharAt(Digits, (n \div 10) + 1) \o CharAt(Digits, (n % 10) + 1)

\* datetime.now().strftime("%Y-%m-%d_%H-%M") at minute n of the hour
Stamp(n) == "2026-11-03_14-" \o TwoDigits(n)

\* lines 432-435: the default output_file
DefaultBackupName(n) == "pycharm_idea_backup_" \o Stamp(n) \o ".zip"

IsDigit(c) == \E i \in 1..10 : CharAt(Digits, i) = c

\* backup_pattern.match(f): the pattern matches at the start of the name
backup_pattern_match(f) ==
    /\ Len(f) >= 34
    /\ SubSeq(f, 1, 20) = "pycharm_idea_backup_"
    /\ IsDigit(CharAt(f, 21)) /\ IsDigit(CharAt(f, 22))
    /\ CharAt(f, 23) = "_"
    /\ IsDigit(CharAt(f, 24)) /\ IsDigit(CharAt(f, 25))
    /\ CharAt(f, 26) = "_"
    /\ \A i \in 27..30 : IsDigit(CharAt(f, i))
    /\ SubSeq(f, 31, 34) = ".zip"

RECURSIVE NewestFirst(_, _)
\* backups.sort(key=getmtime, reverse=True)
NewestFirst(names, dir) ==
    IF names = {} THEN <<>>
    ELSE LET newest == CHOOSE x \in names : \A y \in names : dir[y] <= dir[x]
         IN <<newest>> \o NewestFirst(names \ {newest}, dir)

\* clean_old_backups(max_backups): the directory it leaves; a file of
\* remove_errors cannot be removed
clean_old_backups(max_backups, dir, remove_errors) ==
    LET backups == {f \in DOMAIN dir : backup_pattern_match(f)}
        sorted == NewestFirst(backups, dir)
        old == {sorted[i] : i \in (max_backups + 1)..Len(sorted)}
    IN IF max_backups <= 0 \/ Cardinality(backups) <= max_backups
       THEN dir
       ELSE [f \in (DOMAIN dir) \ (old \ remove_errors) |-> dir[f]]

\* no run yet
NoCleanCall == [max_backups |-> 0, dry_run |-> FALSE, wrote |-> FALSE]

CleanIdle ==
    /\ backup_dir = [f \in {} |-> 0]
    /\ clock = FirstMinute
    /\ clean_call = NoCleanCall

\* lines 1527-1547: main() with --backup: create_backup with the default
\* output_file in the working directory, then clean_old_backups when
\* max_backups > 0. ok: create_backup found files and wrote the container
MainBackup(max_backups, dry, ok, remove_errors) ==
    /\ clock < FirstMinute + MaxRuns
    /\ clock' = clock + 1
    /\ clean_call' = [max_backups |-> max_backups, dry_run |-> dry, wrote |-> ok /\ ~dry]
    /\ LET written == IF ok /\ ~dry
                      THEN (DefaultBackupName(clock) :> clock) @@ backup_dir
                      ELSE backup_dir
       IN backup_dir' = IF max_backups > 0
                        THEN clean_old_backups(max_backups, written, remove_errors)
                        ELSE written
    /\ UNCHANGED <<args, pycharm_dir_exists, absent, stat_errors, write_errors,
                   output_dir_exists, archive, actions_run, result, history_vars,
                   backup_vars, restore_vars, cfg_vars, main_vars, size_vars>>

(***************************************************************************)
(* pycharm_project_backup.py: ProjectUtils.parse_size                      *)
(***************************************************************************)

\* one character of str.upper()
UpperChar(c) ==
    CASE c = "a" -> "A" [] c = "b" -> "B" [] c = "c" -> "C" [] c = "d" -> "D"
      [] c = "e" -> "E" [] c = "f" -> "F" [] c = "g" -> "G" [] c = "h" -> "H"
      [] c = "i" -> "I" [] c = "j" -> "J" [] c = "k" -> "K" [] c = "l" -> "L"
      [] c = "m" -> "M" [] c = "n" -> "N" [] c = "o" -> "O" [] c = "p" -> "P"
      [] c = "q" -> "Q" [] c = "r" -> "R" [] c = "s" -> "S" [] c = "t" -> "T"
      [] c = "u" -> "U" [] c = "v" -> "V" [] c = "w" -> "W" [] c = "x" -> "X"
      [] c = "y" -> "Y" [] c = "z" -> "Z" [] OTHER -> c

RECURSIVE Upper(_)
\* str.upper()
Upper(s) == IF Len(s) = 0 THEN "" ELSE UpperChar(CharAt(s, 1)) \o Upper(SubSeq(s, 2, Len(s)))

\* str.isspace() of one character
IsSpace(c) == c = " "

RECURSIVE Strip(_)
\* str.strip()
Strip(s) ==
    IF Len(s) = 0 THEN s
    ELSE IF IsSpace(CharAt(s, 1)) THEN Strip(SubSeq(s, 2, Len(s)))
    ELSE IF IsSpace(CharAt(s, Len(s))) THEN Strip(SubSeq(s, 1, Len(s) - 1))
    ELSE s

\* str.isdigit()
IsDigitStr(s) == Len(s) > 0 /\ \A i \in 1..Len(s) : IsDigit(CharAt(s, i))

\* the value of one decimal digit
DigitValue(c) == CHOOSE d \in 0..9 : CharAt(Digits, d + 1) = c

RECURSIVE IntOfDigits(_)
\* int() of a string of decimal digits; the empty string counts 0
IntOfDigits(s) ==
    IF Len(s) = 0 THEN 0
    ELSE IntOfDigits(SubSeq(s, 1, Len(s) - 1)) * 10 + DigitValue(CharAt(s, Len(s)))

RECURSIVE Pow10(_)
Pow10(n) == IF n = 0 THEN 1 ELSE 10 * Pow10(n - 1)

\* the position of the first character c of s, 0 when there is none
Find(s, c) ==
    IF \E i \in 1..Len(s) : CharAt(s, i) = c
    THEN CHOOSE i \in 1..Len(s) : CharAt(s, i) = c /\ \A j \in 1..(i - 1) : CharAt(s, j) # c
    ELSE 0

\* a run of digits as float() and int() accept it: digits, with single
\* underscores between digits
IsDigitRun(s) ==
    /\ Len(s) > 0
    /\ IsDigit(CharAt(s, 1))
    /\ IsDigit(CharAt(s, Len(s)))
    /\ \A i \in 1..Len(s) : IsDigit(CharAt(s, i)) \/ CharAt(s, i) = "_"
    /\ \A i \in 1..(Len(s) - 1) : ~(CharAt(s, i) = "_" /\ CharAt(s, i + 1) = "_")

RECURSIVE DropUnderscores(_)
DropUnderscores(s) ==
    IF Len(s) = 0 THEN s
    ELSE IF CharAt(s, 1) = "_" THEN DropUnderscores(SubSeq(s, 2, Len(s)))
    ELSE CharAt(s, 1) \o DropUnderscores(SubSeq(s, 2, Len(s)))

\* float() of a text without sign and without surrounding spaces, in upper
\* case: infinity, not-a-number, the fraction num/den, or ValueError
UnsignedFloat(u) ==
    IF u \in {"INF", "INFINITY"} THEN [kind |-> "inf", num |-> 0, den |-> 1]
    ELSE IF u = "NAN" THEN [kind |-> "nan", num |-> 0, den |-> 1]
    ELSE LET e_at == Find(u, "E")
             mantissa == IF e_at = 0 THEN u ELSE SubSeq(u, 1, e_at - 1)
             exponent == IF e_at = 0 THEN "" ELSE SubSeq(u, e_at + 1, Len(u))
             exp_neg == Len(exponent) > 0 /\ CharAt(exponent, 1) = "-"
             exp_digits == IF Len(exponent) > 0 /\ CharAt(exponent, 1) \in {"+", "-"}
                           THEN SubSeq(exponent, 2, Len(exponent)) ELSE exponent
             dot_at == Find(mantissa, ".")
             int_part == IF dot_at = 0 THEN mantissa ELSE SubSeq(mantissa, 1, dot_at - 1)
             frac_part == IF dot_at = 0 THEN "" ELSE SubSeq(mantissa, dot_at + 1, Len(mantissa))
             well_formed ==
                 /\ (e_at # 0) => IsDigitRun(exp_digits)
                 /\ Len(int_part) > 0 \/ Len(frac_part) > 0
                 /\ Len(int_part) > 0 => IsDigitRun(int_part)
                 /\ Len(frac_part) > 0 => IsDigitRun(frac_part)
             frac_digits == DropUnderscores(frac_part)
             scale == (IF exp_neg THEN 0 - 1 ELSE 1) * IntOfDigits(DropUnderscores(exp_digits))
                          - Len(frac_digits)
             digits == IntOfDigits(DropUnderscores(int_part) \o frac_digits)
         IN IF ~well_formed THEN [kind |-> "ValueError", num |-> 0, den |-> 1]
            ELSE IF scale >= 0 THEN [kind |-> "finite", num |-> digits * Pow10(scale), den |-> 1]
            ELSE [kind |-> "finite", num |-> digits, den |-> Pow10(0 - scale)]

\* float(text) of a text in upper case: spaces around it and one sign are
\* accepted
FloatOf(text) ==
    LET s == Strip(text)
        signed == Len(s) > 0 /\ CharAt(s, 1) \in {"+", "-"}
        u == UnsignedFloat(IF signed THEN SubSeq(s, 2, Len(s)) ELSE s)
    IN [kind |-> u.kind, neg |-> Len(s) > 0 /\ CharAt(s, 1) = "-", num |-> u.num, den |-> u.den]

\* Python integers have no width: a magnitude is the sequence of its digits
\* in base 1024, the least significant first, without leading zero digit
RECURSIVE BigOf(_)
BigOf(n) == IF n = 0 THEN <<>> ELSE <<n % 1024>> \o BigOf(n \div 1024)

\* big * 1024^power
ShiftUp(big, power) == IF big = <<>> THEN <<>> ELSE [i \in 1..power |-> 0] \o big

RECURSIVE DivAcc(_, _, _)
\* the digits of (rem * 1024^Len(big) + big) \div den
DivAcc(big, den, rem) ==
    IF big = <<>> THEN <<>>
    ELSE LET cur == rem * 1024 + big[Len(big)]
         IN DivAcc(SubSeq(big, 1, Len(big) - 1), den, cur % den) \o <<cur \div den>>

RECURSIVE Trim(_)
Trim(big) ==
    IF big # <<>> /\ big[Len(big)] = 0 THEN Trim(SubSeq(big, 1, Len(big) - 1)) ELSE big

\* an int: its sign and its magnitude; -0 is 0
IntValue(neg, big) == [neg |-> neg /\ big # <<>>, magnitude |-> big]

\* lines 468-474: the units dictionary, in its order; the multiplier of a
\* unit is 1024^power
units ==
    <<[unit |-> "B", power |-> 0],
      [unit |-> "KB", power |-> 1],
      [unit |-> "MB", power |-> 2],
      [unit |-> "GB", power |-> 3],
      [unit |-> "TB", power |-> 4]>>

\* a call that returned value, and a call that raised exception
Returns(value) == [raised |-> "none", value |-> value]
Raises(exception) == [raised |-> exception, value |-> IntValue(FALSE, <<>>)]

\* int(value * 1024^power): rounds towards zero; raises OverflowError for
\* an infinity and ValueError for a not-a-number
IntOfProduct(value, power) ==
    IF value.kind = "inf" THEN Raises("OverflowError")
    ELSE IF value.kind = "nan" THEN Raises("ValueError")
    ELSE Returns(IntValue(value.neg,
                          Trim(DivAcc(ShiftUp(BigOf(value.num), power), value.den, 0))))

RECURSIVE TryUnits(_, _)
\* lines 476-482 and 484: the loop over the units from the i-th on; a
\* ValueError of float() or int() is passed over, anything else leaves the
\* function
TryUnits(s, i) ==
    IF i > Len(units) THEN Raises("ValueError")
    ELSE IF ~EndsWith(s, units[i].unit) THEN TryUnits(s, i + 1)
    ELSE LET value == FloatOf(SubSeq(s, 1, Len(s) - Len(units[i].unit)))
             outcome == IF value.kind = "ValueError" THEN Raises("ValueError")
                        ELSE IntOfProduct(value, units[i].power)
         IN IF outcome.raised = "ValueError" THEN TryUnits(s, i + 1) ELSE outcome

\* ProjectUtils.parse_size(size_str)
parse_size(text) ==
    LET s == Strip(Upper(text))
    IN IF IsDigitStr(s) THEN Returns(IntValue(FALSE, BigOf(IntOfDigits(s)))) ELSE TryUnits(s, 1)

\* no call yet
NoSizeResult == [raised |-> "not called", value |-> IntValue(FALSE, <<>>)]

SizeIdle ==
    /\ size_str = ""
    /\ size_result = NoSizeResult

\* a call of parse_size(size_str)
ParseSize ==
    /\ size_result = NoSizeResult
    /\ size_result' = parse_size(size_str)
    /\ UNCHANGED size_str
    /\ UNCHANGED <<args, pycharm_dir_exists, absent, stat_errors, write_errors,
                   output_dir_exists, archive, actions_run, result, history_vars,
                   backup_vars, restore_vars, cfg_vars, main_vars, clean_vars>>

(***************************************************************************)
(* Initial states and specifications                                       *)
(***************************************************************************)

\* the disk of pycharm_config_backup.py before any call: two projects with
\* their .idea directories and two PyCharm versions with their options
BaseDisk ==
    ( "/home/dev/PycharmProjects/app/.idea/workspace.xml"                :> 1
   @@ "/home/dev/PycharmProjects/app/.idea/runConfigurations/run.xml"    :> 2
   @@ "/home/dev/PycharmProjects/app/.idea/shelf.dat"                    :> 3
   @@ "/home/dev/PycharmProjects/app2/.idea/misc.xml"                    :> 4
   @@ "/home/dev/.config/JetBrains/PyCharm2023.1/options/recentProjects.xml" :> 5
   @@ "/home/dev/.config/JetBrains/PyCharm2024.1/options/recentProjects.xml" :> 6
   @@ "/home/dev/.config/JetBrains/PyCharm2024.1/options/editor.xml"     :> 7 )

\* files that may or may not be on the disk
OptionalFiles ==
    {"/home/dev/PycharmProjects/app/.idea/runConfigurations/run.xml",
     "/home/dev/PycharmProjects/app2/.idea/misc.xml"}

Restrict(f, S) == [x \in S |-> f[x]]

\* the directories a set of files implies
DirsOf(files) == UNION {Ancestors(DirName(f)) : f \in files}

\* the project names restore_project is called with
ProjectNames == {"app", "app2", "ghost"}

CfgIdle ==
    /\ cfg_files = Restrict(BaseDisk, {})
    /\ cfg_dirs = {}
    /\ cfg_archive = NoFile
    /\ cfg_call = CreateCall(FALSE, FALSE, FALSE)
    /\ cfg_pc = "idle"
    /\ files_to_restore = <<>>
    /\ cfg_written = {}
    /\ cfg_result = NoResult
    /\ cfg_faults = {}
    /\ cfg_extracted = {}
    /\ cfg_batch = NoBatch
    /\ cfg_listed = <<>>
    /\ original_files = <<>>

CfgInit ==
    /\ \E missing \in SUBSET OptionalFiles, has_output_dir \in BOOLEAN :
          /\ cfg_files = Restrict(BaseDisk, (DOMAIN BaseDisk) \ missing)
          /\ cfg_dirs = DirsOf(DOMAIN BaseDisk)
                            \cup (IF has_output_dir THEN Ancestors(OutputDir) ELSE {})
    /\ cfg_archive = NoFile
    /\ cfg_call = CreateCall(FALSE, FALSE, FALSE)
    /\ cfg_pc = "idle"
    /\ files_to_restore = <<>>
    /\ cfg_written = {}
    /\ cfg_result = NoResult
    /\ cfg_faults = {}
    /\ cfg_extracted = {}
    /\ cfg_batch = NoBatch
    /\ cfg_listed = <<>>
    /\ original_files = <<>>

\* the include_paths lists backup() is called with
IncludePathChoices ==
    { <<>>, <<"lib2/build">>, <<"lib2/data/sample">>, <<"lib2\\venv">> }

\* the places pycharm_dir may be
PycharmDirChoices == { <<"home", "dev", "PycharmProjects">>, <<"home", "env", "PycharmProjects">> }

\* (stat_errors, write_errors): at most one file fails
FaultChoices ==
    { <<{}, {}>>, << {<<"lib2", "big.py">>}, {} >>, << {}, {<<"lib2", "main.py">>} >> }

ProjIdle ==
    /\ output_dir_exists = FALSE
    /\ archive = NoFile
    /\ actions_run = <<>>
    /\ op = "none"
    /\ pc = "idle"
    /\ dry_run = FALSE
    /\ project_dirs = <<>>
    /\ project_queue = <<>>
    /\ module_paths = <<>>
    /\ walk_stack = <<>>
    /\ root_path = <<>>
    /\ path_explicitly_included = FALSE
    /\ in_venv = FALSE
    /\ file_queue = <<>>
    /\ stats = ZeroStats
    /\ log = <<>>
    /\ result = NoResult
    /\ prev = NoRun
    /\ last = NoRun
    /\ selected_projects = {}
    /\ extract_errors = {}
    /\ restore_projects = {}
    /\ restore_queue = <<>>
    /\ extracted = {}

ArgsChoices ==
    [pycharm_dir : PycharmDirChoices,
     include_venv : BOOLEAN,
     custom_excludes : {{}, {"old"}},
     max_size_bytes : {EdgeSize - 1, EdgeSize},
     include_paths : IncludePathChoices,
     include_projects : {{}},
     exclude_projects : {{}},
     auto_include_modules : BOOLEAN,
     post_backup_actions : {<<"echo {backup_file}">>}]

Init ==
    /\ args \in ArgsChoices
    /\ pycharm_dir_exists \in BOOLEAN
    /\ absent = {}
    /\ \E f \in FaultChoices : stat_errors = f[1] /\ write_errors = f[2]
    /\ ProjIdle
    /\ MainIdle
    /\ CleanIdle
    /\ SizeIdle
    /\ CfgIdle

\* a session of backups
Next ==
    \/ \E dry \in BOOLEAN :
         \E order \in Orderings(get_project_dirs(args.include_projects, args.exclude_projects)) :
            BackupStart(dry, order)
    \/ NextProject
    \/ VisitDir
    \/ ProcessFile
    \/ BackupFinish

Spec == Init /\ [][Next]_vars

\* the selected_projects arguments restore() is called with ({} is None)
SelectionChoices == { {}, {"lib"}, {"lib", "ghost"}, {"ghost"} }

\* the sets of entries whose extraction fails: none, one, every entry of
\* project lib
ExtractErrorChoices ==
    { {}, {"lib2/main.py"}, {"lib/__init__.py", "lib/util.dat", "lib/venv/bin/activate"} }

\* one backup, then restores of its container into an empty extract_dir
NextRoundTrip ==
    \/ \E dry \in BOOLEAN :
         \E order \in Orderings(get_project_dirs(args.include_projects, args.exclude_projects)) :
            /\ op = "none"
            /\ BackupStart(dry, order)
    \/ NextProject
    \/ VisitDir
    \/ ProcessFile
    \/ BackupFinish
    \/ \E sel \in SelectionChoices, errs \in ExtractErrorChoices :
            /\ extracted = {}
            /\ RestoreStart(sel, errs)
    \/ RestoreEntry
    \/ RestoreFinish

SpecRoundTrip == Init /\ [][NextRoundTrip]_vars

\* the sets of archive names whose copy to disk raises
WriteFaultChoices ==
    { {}, {"PycharmProjects/app/.idea/runConfigurations/run.xml"},
      {"_pycharm_recent_projects/PyCharm2024.1/recentProjects.xml",
       "_pycharm_global_settings/PyCharm2024.1/options/editor.xml"} }

\* no earlier restore_project has left a .idea inside a .idea
NoNestedIdea == \A f \in DOMAIN cfg_files : ~Contains(f, "/.idea/.idea/")

InitCfg ==
    /\ args = [pycharm_dir |-> <<"home", "dev", "PycharmProjects">>,
               include_venv |-> FALSE,
               custom_excludes |-> {},
               max_size_bytes |-> EdgeSize,
               include_paths |-> <<>>,
               include_projects |-> {},
               exclude_projects |-> {},
               auto_include_modules |-> TRUE,
               post_backup_actions |-> <<>>]
    /\ pycharm_dir_exists = TRUE
    /\ absent = {}
    /\ stat_errors = {}
    /\ write_errors = {}
    /\ ProjIdle
    /\ MainIdle
    /\ CleanIdle
    /\ SizeIdle
    /\ CfgInit

\* calls of create_backup and restore_project in any order, without storage
\* faults, as long as no restored file is restored from again
NextCfg ==
    \/ \E dry, recent, global, mkdir_ok \in BOOLEAN :
            /\ mkdir_ok \/ ~Exists(OutputDir)
            /\ CreateBackup(dry, recent, global, mkdir_ok, TRUE)
    \/ /\ cfg_pc = "idle"
       /\ NoNestedIdea
       /\ \E project_name \in ProjectNames, dry, diff \in BOOLEAN :
            RestoreProjectStart(project_name, dry, diff, {}, FALSE)
    \/ RestoreProjectFile
    \/ RestoreProjectFinish

SpecCfg == InitCfg /\ [][NextCfg]_vars

\* a disk without the projects directory: only the configuration
\* directories, and perhaps the output directory
InitCfgNoRoot ==
    /\ args = [pycharm_dir |-> <<"home", "dev", "PycharmProjects">>,
               include_venv |-> FALSE,
               custom_excludes |-> {},
               max_size_bytes |-> EdgeSize,
               include_paths |-> <<>>,
               include_projects |-> {},
               exclude_projects |-> {},
               auto_include_modules |-> TRUE,
               post_backup_actions |-> <<>>]
    /\ pycharm_dir_exists = TRUE
    /\ absent = {}
    /\ stat_errors = {}
    /\ write_errors = {}
    /\ ProjIdle
    /\ MainIdle
    /\ CleanIdle
    /\ SizeIdle
    /\ \E has_output_dir \in BOOLEAN :
          /\ cfg_files = Restrict(BaseDisk, {f \in DOMAIN BaseDisk : StartsWith(f, JetBrainsDir)})
          /\ cfg_dirs = DirsOf(DOMAIN cfg_files)
                            \cup (IF has_output_dir THEN Ancestors(OutputDir) ELSE {})
    /\ cfg_archive = NoFile
    /\ cfg_call = CreateCall(FALSE, FALSE, FALSE)
    /\ cfg_pc = "idle"
    /\ files_to_restore = <<>>
    /\ cfg_written = {}
    /\ cfg_result = NoResult
    /\ cfg_faults = {}
    /\ cfg_extracted = {}
    /\ cfg_batch = NoBatch
    /\ cfg_listed = <<>>
    /\ original_files = <<>>

\* a session of either program: backup sessions of pycharm_project_backup.py
\* (whose state holds no configuration disk), or create_backup and
\* restore_project sessions of pycharm_config_backup.py
InitBoth == Init \/ InitCfg \/ InitCfgNoRoot

NextBoth ==
    \/ /\ cfg_dirs = {}
       /\ Next
    \/ /\ cfg_dirs # {}
       /\ NextCfg

SpecBoth == InitBoth /\ [][NextBoth]_vars

\* a project below a sub-directory of projects_dir
NestedFile == "/home/dev/PycharmProjects/group/web/.idea/misc.xml"

\* the projects arguments restore_projects is called with (<<>> is 'all')
ProjectsChoices == { <<>>, <<"app", "ghost">> }

InitCfgRestore ==
    /\ args = [pycharm_dir |-> <<"home", "dev", "PycharmProjects">>,
               include_venv |-> FALSE,
               custom_excludes |-> {},
               max_size_bytes |-> EdgeSize,
               include_paths |-> <<>>,
               include_projects |-> {},
               exclude_projects |-> {},
               auto_include_modules |-> TRUE,
               post_backup_actions |-> <<>>]
    /\ pycharm_dir_exists = TRUE
    /\ absent = {}
    /\ stat_errors = {}
    /\ write_errors = {}
    /\ ProjIdle
    /\ MainIdle
    /\ CleanIdle
    /\ SizeIdle
    /\ \E missing \in SUBSET OptionalFiles, nested \in BOOLEAN :
          /\ cfg_files = Restrict(BaseDisk, (DOMAIN BaseDisk) \ missing)
                             @@ (IF nested THEN NestedFile :> 8 ELSE Restrict(BaseDisk, {}))
          /\ cfg_dirs = DirsOf(DOMAIN BaseDisk) \cup Ancestors(OutputDir)
                            \cup (IF nested THEN DirsOf({NestedFile}) ELSE {})
    /\ cfg_archive = NoFile
    /\ cfg_call = CreateCall(FALSE, FALSE, FALSE)
    /\ cfg_pc = "idle"
    /\ files_to_restore = <<>>
    /\ cfg_written = {}
    /\ cfg_result = NoResult
    /\ cfg_faults = {}
    /\ cfg_extracted = {}
    /\ cfg_batch = NoBatch
    /\ cfg_listed = <<>>
    /\ original_files = <<>>

\* no call has followed the last create_backup
Fresh == cfg_call.op = "create_backup"

\* one create_backup, possibly hit by a storage fault, then one listing of
\* its container or one restore from it, some of whose copies fail
NextCfgRestore ==
    \/ \E recent, global, intact \in BOOLEAN :
            /\ cfg_archive = NoFile
            /\ Fresh
            /\ CreateBackup(FALSE, recent, global, TRUE, intact)
    \/ /\ Fresh
       /\ ListProjects
    \/ /\ Fresh
       /\ \E project_name \in ProjectNames, dry, diff, cmp_fault \in BOOLEAN :
            \E faults \in WriteFaultChoices :
               /\ cmp_fault => diff
               /\ faults # {} => ~dry
               /\ RestoreProjectStart(project_name, dry, diff, faults, cmp_fault)
    \/ /\ Fresh
       /\ \E projects \in ProjectsChoices, recent, global, dry, diff \in BOOLEAN :
            \E faults \in WriteFaultChoices :
               /\ faults # {} => ~dry
               /\ RestoreProjectsStart(projects, recent, global, dry, diff, faults)
    \/ \E cmp_fault \in BOOLEAN :
            /\ cmp_fault => cfg_batch.show_diff
            /\ BatchProject(cmp_fault)
    \/ RestoreProjectFile
    \/ RestoreProjectFinish
    \/ BatchRecent
    \/ BatchGlobal

SpecCfgRestore == InitCfgRestore /\ [][NextCfgRestore]_vars

\* one create_backup, then calls of restore_project on the disk the earlier
\* calls left, the last one with show_diff; no copy to a target fails
NextCfgDiff ==
    \/ /\ cfg_archive = NoFile
       /\ CreateBackup(FALSE, FALSE, FALSE, TRUE, TRUE)
    \/ /\ cfg_pc = "idle"
       /\ cfg_archive # NoFile
       /\ ~cfg_call.show_diff
       /\ \E project_name \in ProjectNames, dry, diff, cmp_fault \in BOOLEAN :
            /\ cmp_fault => diff
            /\ RestoreProjectStart(project_name, dry, diff, {}, cmp_fault)
    \/ RestoreProjectFile
    \/ RestoreProjectFinish

SpecCfgDiff == InitCfg /\ [][NextCfgDiff]_vars

\* (stat_errors, write_errors) of the sessions in which the failure goes away
ModuleFaultChoices ==
    FaultChoices \cup { << {}, {<<"lib", "__init__.py">>} >>, << {<<"lib", "__init__.py">>}, {} >> }

InitFault ==
    /\ args \in [pycharm_dir : {<<"home", "dev", "PycharmProjects">>},
                 include_venv : BOOLEAN,
                 custom_excludes : {{}},
                 max_size_bytes : {EdgeSize - 1, EdgeSize},
                 include_paths : {<<>>, <<"lib2/build">>},
                 include_projects : {{}},
                 exclude_projects : {{}},
                 auto_include_modules : BOOLEAN,
                 post_backup_actions : {<<>>}]
    /\ pycharm_dir_exists = TRUE
    /\ absent = {}
    /\ \E f \in ModuleFaultChoices : stat_errors = f[1] /\ write_errors = f[2]
    /\ ProjIdle
    /\ MainIdle
    /\ CleanIdle
    /\ SizeIdle
    /\ CfgIdle

\* between two backups the cause of the failure is repaired
RepairFailed ==
    /\ pc = "idle"
    /\ last # NoRun
    /\ prev = NoRun
    /\ stat_errors \cup write_errors # {}
    /\ stat_errors' = {}
    /\ write_errors' = {}
    /\ UNCHANGED <<args, pycharm_dir_exists, absent, output_dir_exists, archive, actions_run,
                   result, history_vars, backup_vars, restore_vars, cfg_vars, main_vars, clean_vars,
                   size_vars>>

\* between two backups the file that failed is removed
RemoveFailed ==
    /\ pc = "idle"
    /\ last # NoRun
    /\ prev = NoRun
    /\ stat_errors \cup write_errors # {}
    /\ absent' = stat_errors \cup write_errors
    /\ stat_errors' = {}
    /\ write_errors' = {}
    /\ UNCHANGED <<args, pycharm_dir_exists, output_dir_exists, archive, actions_run,
                   result, history_vars, backup_vars, restore_vars, cfg_vars, main_vars, clean_vars,
                   size_vars>>

\* a backup in which a stat or a write may fail, then, once the failing file
\* is repaired or removed, the same backup again
NextFault ==
    \/ \E dry \in BOOLEAN :
         \E order \in Orderings(get_project_dirs(args.include_projects, args.exclude_projects)) :
            /\ prev = NoRun
            /\ last = NoRun \/ (/\ stat_errors \cup write_errors = {}
                                /\ dry = last.dry_run
                                /\ order = last.project_dirs)
            /\ BackupStart(dry, order)
    \/ NextProject
    \/ VisitDir
    \/ ProcessFile
    \/ BackupFinish
    \/ RepairFailed
    \/ RemoveFailed

SpecFault == InitFault /\ [][NextFault]_vars

\* the command lines main() is run with
ArgvChoices ==
    [venv_include : BOOLEAN,
     exclude_dirs : {<<>>, <<"old">>},
     max_size_to_include : {<<>>, <<"1MB">>},
     include_paths : {<<>>, <<"lib2/build">>},
     include_projects : {<<>>, <<"lib">>},
     exclude_projects : {<<>>, <<"lib2">>},
     compression_level : {<<>>, <<9>>, <<3>>},
     no_auto_modules : BOOLEAN,
     post_action : {<<>>, <<"echo {backup_file}">>}]

\* a saved profile that holds every key
FullProfile ==
    [include_venv |-> TRUE,
     exclude_dirs |-> <<"build">>,
     include_paths |-> <<"docs">>,
     include_projects |-> <<"lib2">>,
     exclude_projects |-> <<"lib">>,
     max_size_to_include |-> "100MB",
     compression_level |-> 5,
     auto_include_modules |-> TRUE,
     post_backup_actions |-> <<"sync">>]

\* the saved profiles: any subset of the keys
ProfileChoices == {[k \in keys |-> FullProfile[k]] : keys \in SUBSET ProfileKeys}

InitMain ==
    /\ args = [pycharm_dir |-> <<"home", "dev", "PycharmProjects">>,
               include_venv |-> FALSE,
               custom_excludes |-> {},
               max_size_bytes |-> EdgeSize,
               include_paths |-> <<>>,
               include_projects |-> {},
               exclude_projects |-> {},
               auto_include_modules |-> TRUE,
               post_backup_actions |-> <<>>]
    /\ pycharm_dir_exists = TRUE
    /\ absent = {}
    /\ stat_errors = {}
    /\ write_errors = {}
    /\ ProjIdle
    /\ CfgIdle
    /\ argv \in ArgvChoices
    /\ profile_settings \in ProfileChoices
    /\ settings = NoSettings
    /\ CleanIdle
    /\ SizeIdle

NextMain == Main

SpecMain == InitMain /\ [][NextMain]_vars

\* files an earlier version of the tool, or the user, left in the working
\* directory, with their modification times
OldFiles ==
    ( "pycharm_idea_backup_01_11_2026.zip" :> 1
   @@ "pycharm_idea_backup_02_11_2026.zip" :> 2
   @@ "pycharm_idea_backup_03_11_2026.zip.bak" :> 3
   @@ "notes.txt" :> 4 )

InitClean ==
    /\ args = [pycharm_dir |-> <<"home", "dev", "PycharmProjects">>,
               include_venv |-> FALSE,
               custom_excludes |-> {},
               max_size_bytes |-> EdgeSize,
               include_paths |-> <<>>,
               include_projects |-> {},
               exclude_projects |-> {},
               auto_include_modules |-> TRUE,
               post_backup_actions |-> <<>>]
    /\ pycharm_dir_exists = TRUE
    /\ absent = {}
    /\ stat_errors = {}
    /\ write_errors = {}
    /\ ProjIdle
    /\ CfgIdle
    /\ MainIdle
    /\ \E present \in SUBSET DOMAIN OldFiles : backup_dir = Restrict(OldFiles, present)
    /\ clock = FirstMinute
    /\ clean_call = NoCleanCall
    /\ SizeIdle

\* runs of `--backup --max-backups N`, one a minute
NextClean ==
    \E max_backups \in 0..2, dry, ok \in BOOLEAN :
        \E remove_errors \in {{}, {"pycharm_idea_backup_01_11_2026.zip"}} :
            MainBackup(max_backups, dry, ok, remove_errors)

SpecClean == InitClean /\ [][NextClean]_vars

\* the size strings handed to parse_size: spaces, a sign, a number, a gap
\* and a unit
SizeLeads == {"", " "}
SizeSigns == {"", "-", "+"}
SizeNumbers == {"", "0", "7", "12", "1.5", ".5", "2e3", "1_0", "inf", "nan", "x"}
SizeGaps == {"", " "}
SizeUnits == {"", "b", "B", "kb", "Kb", "MB", "gb", "TB", "K", "PB"}

SizeInputs ==
    {lead \o sign \o number \o gap \o unit :
        lead \in SizeLeads, sign \in SizeSigns, number \in SizeNumbers,
        gap \in SizeGaps, unit \in SizeUnits}

InitSize ==
    /\ args = [pycharm_dir |-> <<"home", "dev", "PycharmProjects">>,
               include_venv |-> FALSE,
               custom_excludes |-> {},
               max_size_bytes |-> EdgeSize,
               include_paths |-> <<>>,
               include_projects |-> {},
               exclude_projects |-> {},
               auto_include_modules |-> TRUE,
               post_backup_actions |-> <<>>]
    /\ pycharm_dir_exists = TRUE
    /\ absent = {}
    /\ stat_errors = {}
    /\ write_errors = {}
    /\ ProjIdle
    /\ CfgIdle
    /\ MainIdle
    /\ CleanIdle
    /\ size_str \in SizeInputs
    /\ size_result = NoSizeResult

NextSize == ParseSize

SpecSize == InitSize /\ [][NextSize]_vars

(***************************************************************************)
(* Properties                                                              *)
(***************************************************************************)

\* backup() has returned True and nothing has been called since
BackupDone == op = "backup" /\ pc = "idle" /\ result = "True"

\* the files the last completed backup reported as added
AcceptedFiles == {a.file : a \in last.accepted}

\* no stat() and no zipf.write() fails in this run
NoBackupFault == stat_errors = {} /\ write_errors = {}

\* restore_project(dry_run false) has returned True
RestoreProjectDone ==
    /\ cfg_call.op = "restore_project"
    /\ ~cfg_call.dry_run
    /\ cfg_pc = "idle"
    /\ cfg_result = "True"

\* the entries of the backup that create_backup read from below
\* <projects_dir>/<P>/.idea
EntriesOfProject(project_name) ==
    {e \in Range(cfg_archive.entries) :
        StartsWith(e.src, PathJoin(PathJoin(ProjectsDir, project_name), ".idea") \o "/")}

\* C1: once restore_project(projects_dir, P, archive) with dry_run false has
\* returned True, every entry that create_backup archived from
\* <projects_dir>/<P>/.idea/<r> has been written, with its content, to the
\* path it was read from, and no other path has been written
C1_RestoreProjectWritesBackToSource ==
    RestoreProjectDone =>
        /\ cfg_written = {e.src : e \in EntriesOfProject(cfg_call.project_name)}
        /\ \A e \in EntriesOfProject(cfg_call.project_name) :
              e.src \in DOMAIN cfg_files /\ cfg_files[e.src] = e.data

\* restore() without selection and without failing entry has returned True
\* after a real backup in which no stat() and no write failed
RoundTripDone ==
    /\ op = "restore"
    /\ pc = "idle"
    /\ result = "True"
    /\ selected_projects = {}
    /\ extract_errors = {}
    /\ NoBackupFault
    /\ ~last.dry_run

\* C2: after backup (dry_run false, no I/O failure) and restore of the
\* produced archive into an empty directory with no project selection, the
\* destination holds exactly the files that passed the inclusion policy, each
\* at its path relative to the projects root and with its source's content
C2_RoundTrip ==
    RoundTripDone =>
        extracted = {[path |-> f, data |-> Tree[f].data] : f \in AcceptedFiles}

\* C2 happens: a round trip that restored files of both projects, one of
\* them three directories deep
C2_Witness ==
    /\ RoundTripDone
    /\ \E e \in extracted : e.path[1] = "lib"
    /\ \E e \in extracted : e.path[1] = "lib2" /\ Len(e.path) >= 3

\* the directories an include-prefix names inside a scanned project
IncludedDirs ==
    {d \in Dirs : /\ Len(d) >= 2
                  /\ d[1] \in Range(last.project_dirs)
                  /\ \E i \in 1..Len(args.include_paths) :
                        JoinSlash(d) = ReplaceBackslash(args.include_paths[i])}

\* C3: for every include-prefix that names a directory D inside a scanned
\* project, a backup in which no stat() and no write fails archives every
\* file under D whose size is at most max_size_bytes and that matches no
\* custom exclusion pattern, whatever the names of D and of the directories
\* between the project root and D
C3_IncludedDirArchivedWhole ==
    (BackupDone /\ NoBackupFault) =>
        \A d \in IncludedDirs :
            \A f \in Files :
                (/\ IsPrefix(d, f)
                 /\ Tree[f].size <= args.max_size_bytes
                 /\ ~should_exclude_file(Abs(f), args.custom_excludes))
                    => f \in AcceptedFiles

\* the files reported as added so far by the backup in progress or last
\* completed
AddedFiles == {log[i].file : i \in {j \in 1..Len(log) : log[j].kind = "added"}}

\* the relative path of the directory matches an include-prefix or a detected
\* module prefix, as is_in_include_paths matches
MatchesPrefix(dir) ==
    \/ is_in_include_paths(dir, args.include_paths)
    \/ is_in_include_paths(dir, module_paths)

\* C4: a file under a subdirectory of a project whose name is_excluded_dir
\* rejects is never archived, unless the relative path of that subdirectory
\* or of one of its ancestors matches an include-prefix or a detected module
\* prefix
C4_ExcludedDirNeverArchived ==
    \A f \in AddedFiles :
        \A n \in 2..(Len(f) - 1) :
            is_excluded_dir(f[n], args.include_venv, args.custom_excludes)
                => \E k \in 1..n : MatchesPrefix(SubSeq(f, 1, k))

\* C4 happens: the backup has passed three excluded directories; the file of
\* the one that an include-prefix names is archived, those of the others not
C4_Witness ==
    /\ BackupDone
    /\ args.include_paths = <<"lib2/build">>
    /\ ~args.auto_include_modules
    /\ <<"lib2", "build", "out.dat">> \in AddedFiles
    /\ <<"lib2", "data", "sample", "cfg.json">> \notin AddedFiles
    /\ <<"lib2", "venv", "lib.py">> \notin AddedFiles

\* C5: every file backup() archived or reported as added had a size of at
\* most max_size_bytes, whichever way it was accepted
C5_ArchivedWithinCap ==
    /\ \A f \in AddedFiles : Tree[f].size <= args.max_size_bytes
    /\ \A e \in Range(archive.entries) : Tree[e.src].size <= args.max_size_bytes

\* C5 happens: one backup has accepted a file of the capped size below an
\* include path, one below a module, one as an environment marker and one as
\* an important file
C5_Witness ==
    /\ BackupDone
    /\ ~dry_run
    /\ \E i, j, k, l \in 1..Len(log) :
          /\ log[i].via = "custom path" /\ log[i].file = <<"lib2", "build", "out.dat">>
          /\ log[j].via = "custom path" /\ log[j].file = <<"lib", "util.dat">>
          /\ log[k].via = "venv" /\ Tree[log[k].file].size = args.max_size_bytes
          /\ log[l].via = "important" /\ Tree[log[l].file].size = args.max_size_bytes
    /\ Len(archive.entries) = Cardinality(AddedFiles)

\* the file the next iteration of `for file in files` handles
CurrentFile == root_path \o <<Head(file_queue)>>

\* the file passes every inclusion filter other than the size cap
PassesOtherFilters(f) ==
    /\ ~should_exclude_file(Abs(f), args.custom_excludes)
    /\ f \notin stat_errors
    /\ dry_run \/ f \notin write_errors
    /\ \/ path_explicitly_included
       \/ IF in_venv /\ args.include_venv
          THEN MatchesVenvFile(Abs(f))
          ELSE is_important_file(Name(f), args.include_venv)

\* what the claim requires of the step that handles CurrentFile
SizeBoundaryStep ==
    /\ Tree[CurrentFile].size = args.max_size_bytes =>
          /\ log' = Append(log, log'[Len(log')])
          /\ log'[Len(log')].kind = "added"
          /\ log'[Len(log')].file = CurrentFile
          /\ stats'.included_files = stats.included_files + 1
          /\ stats'.excluded_count = stats.excluded_count
          /\ stats'.excluded_size = stats.excluded_size
          /\ ~dry_run => archive'.entries =
                            Append(archive.entries, archive'.entries[Len(archive'.entries)])
    /\ Tree[CurrentFile].size = args.max_size_bytes + 1 =>
          /\ CurrentFile \notin {log'[i].file : i \in {j \in 1..Len(log') : log'[j].kind = "added"}}
          /\ archive' = archive
          /\ stats'.included_files = stats.included_files
          /\ stats'.excluded_count = stats.excluded_count + 1
          /\ stats'.excluded_size = stats.excluded_size + Tree[CurrentFile].size

\* C6: a file that passes every other inclusion filter is archived when its
\* size equals max_size_bytes; one byte larger it is not archived and adds 1
\* to excluded_count and its size to excluded_size
C6_SizeBoundary ==
    [][(pc = "files" /\ PassesOtherFilters(CurrentFile)) => SizeBoundaryStep]_vars

\* C6 happens: a file one byte over the cap that otherwise passes was left
\* out and counted as excluded
C6_Witness ==
    /\ BackupDone
    /\ \E i \in 1..Len(log) :
          /\ log[i].kind = "too large"
          /\ Tree[log[i].file].size = args.max_size_bytes + 1
          /\ is_important_file(Name(log[i].file), args.include_venv)
    /\ stats.excluded_count >= 1
    /\ stats.excluded_size >= args.max_size_bytes + 1

\* the module roots find_all_modules detects in the scanned projects
DetectedModules ==
    UNION {Range(find_all_modules(<<project_dirs[i]>>)) : i \in 1..Len(project_dirs)}

\* the files below a detected module root
ModuleFiles == {f \in Files : \E m \in DetectedModules : IsPrefix(m, f)}

\* some directory between the project root and the file is one that
\* is_excluded_dir rejects
ExcludedOnTheWay(f) ==
    \E n \in 2..(Len(f) - 1) : is_excluded_dir(f[n], args.include_venv, args.custom_excludes)

\* lines 763-764 for the directory dir (relative to pycharm_dir)
InVenv(dir) == \E venv_dir \in in_venv_names : venv_dir \in Range(Abs(dir))

DryAndRealRun ==
    /\ prev.result = "True"
    /\ last.result = "True"
    /\ prev.dry_run # last.dry_run
    /\ prev.project_dirs = last.project_dirs

C9_DryRunCreateBackupWritesNothing ==
    [][(cfg_call'.op = "create_backup" /\ cfg_call'.dry_run)
          => UNCHANGED <<cfg_files, cfg_dirs, cfg_archive>>]_vars

\* C10: no step of backup() with dry_run true creates or modifies the
\* container at output_path, creates the parent directory of output_path or
\* executes a post-backup action
C10_DryRunBackupWritesNothing ==
    [][(op' = "backup" /\ dry_run')
          => /\ archive' = archive
             /\ output_dir_exists' = output_dir_exists
             /\ actions_run' = <<>>]_vars

\* C10 happens: a dry run with post-backup actions has returned True after
\* accepting files; there is no container and no output directory
C10_Witness ==
    /\ BackupDone
    /\ dry_run
    /\ Len(args.post_backup_actions) > 0
    /\ stats.included_files >= 3
    /\ archive = NoFile
    /\ ~output_dir_exists
    /\ actions_run = <<>>

\* the part of a str before the first occurrence of sep (the whole str when
\* there is none)
Before(str, sep) ==
    LET hits == {i \in 1..Len(str) : i + Len(sep) - 1 <= Len(str)
                                      /\ SubSeq(str, i, i + Len(sep) - 1) = sep}
    IN IF hits = {} THEN str
       ELSE SubSeq(str, 1, (CHOOSE i \in hits : \A j \in hits : i <= j) - 1)

\* the entries of the container outside the two reserved namespaces
PlainEntries == {e \in Range(cfg_archive.entries) : ~IsRecentName(e.name) /\ ~IsGlobalName(e.name)}

\* find_idea_files, lines 295-297: the name of the project a configuration
\* file was collected for
ProjectNameOf(file) == BaseName(Before(file, "/.idea/"))

\* the names of the projects the container was produced from
ArchivedProjects == {ProjectNameOf(e.src) : e \in PlainEntries}

\* restore_projects has returned from a real run over exactly the projects
\* list_projects_in_backup names, and no copy failed
RestoreAllDone ==
    /\ cfg_call.op = "restore_projects"
    /\ cfg_pc = "idle"
    /\ cfg_result \in {"True", "False"}
    /\ ~cfg_call.dry_run
    /\ cfg_faults = {}
    /\ cfg_batch.projects = list_projects_in_backup(cfg_archive.entries)

\* C11: list_projects_in_backup returns exactly the names of the projects the
\* container was produced from and never a reserved namespace, and
\* restore_projects with 'all' restores the entries of exactly those
\* projects, touching a reserved namespace only when its flag is set.
C11_ListAndRestoreAll ==
    /\ (cfg_call.op = "list_projects_in_backup" /\ cfg_archive.exists)
          => /\ Range(cfg_listed) = ArchivedProjects
             /\ Range(cfg_listed) \cap {"_pycharm_recent_projects", "_pycharm_global_settings"} = {}
    /\ RestoreAllDone
          => /\ {n \in cfg_extracted : ~IsRecentName(n) /\ ~IsGlobalName(n)}
                    = {e.name : e \in PlainEntries}
             /\ (\E n \in cfg_extracted : IsRecentName(n)) => cfg_call.backup_recent_projects
             /\ (\E n \in cfg_extracted : IsGlobalName(n)) => cfg_call.backup_global_settings

\* C12: a failure to copy one entry does not stop the restore loop: when
\* restore_project ends, every entry it found and did not restore is one
\* whose copy failed.
C12_FailureDoesNotStopLoop ==
    (/\ cfg_call.op = "restore_project"
     /\ cfg_pc = "idle"
     /\ ~cfg_call.dry_run
     /\ ~cfg_call.show_diff
     /\ cfg_result \in {"True", "raised"})
        => \A i \in 1..Len(files_to_restore) : files_to_restore[i].zip_path \in cfg_faults

\* C13: restore returns True exactly when at least one entry was restored:
\* not when every extraction failed, and not when no entry matched.
C13_SuccessMeansRestored ==
    (op = "restore" /\ pc = "idle") => (result = "True" <=> extracted # {})

\* C14: a restore whose selected projects are all absent from the container
\* has nothing to restore, which is not an error: it does not return the
\* failure value.
C14_NothingSelectedIsNoError ==
    (/\ op = "restore"
     /\ pc = "idle"
     /\ archive.exists
     /\ selected_projects # {}
     /\ restore_projects = {})
        => result # "False"

\* a backup in which a stat or a write failed, and the same backup of the
\* same tree after the failure went away
FailedThenClean ==
    /\ prev.result # NoResult
    /\ last.result # NoResult
    /\ prev.stat_failed \cup prev.write_failed # {}
    /\ last.stat_failed \cup last.write_failed = {}
    /\ prev.dry_run = last.dry_run
    /\ prev.project_dirs = last.project_dirs

\* the files a completed backup accepted
AcceptedIn(run) == {a.file : a \in run.accepted}

EntryNames(zf) == [i \in 1..Len(zf.entries) |-> zf.entries[i].name]

\* no name occurs twice
Distinct(names) ==
    \A i, j \in 1..Len(names) : names[i] = names[j] => i = j

WroteBackup ==
    /\ cfg_call.op = "create_backup"
    /\ ~cfg_call.dry_run
    /\ cfg_pc = "idle"
    /\ original_files # <<>>

\* C17: after create_backup wrote the container, the verification passed
\* (and create_backup returned True) exactly when the reopened container
\* holds at least as many entries as source files were requested; when it
\* did not pass, create_backup returned False and the archive file is still
\* on disk as written.
C17_VerifyCountsEntries ==
    WroteBackup
        => /\ cfg_result \in {"True", "False"}
           /\ cfg_result = "True" <=> Len(cfg_archive.entries) >= Len(original_files)
           /\ cfg_archive.exists
           /\ ~cfg_archive.open

\* C17 happens: the reopened container holds fewer entries than requested,
\* create_backup returned False and the archive is on disk
C17_Witness ==
    /\ WroteBackup
    /\ Len(cfg_archive.entries) < Len(original_files)
    /\ cfg_result = "False"
    /\ cfg_archive.exists
\* the option was given on the command line
Given(option) == IF option \in {"venv_include", "no_auto_modules"}
                 THEN argv[option]
                 ELSE argv[option] # <<>>

\* one effective setting follows the rule: the command line's value when
\* the option was given, else the profile's value when the profile has one
FollowsRule(option, key, explicit, effective) ==
    /\ Given(option) => effective = explicit
    /\ (~Given(option) /\ key \in DOMAIN profile_settings)
            => effective = profile_settings[key]

\* C18: with a profile in use, every effective setting equals the value
\* given on the command line when one was given, and the profile's value
\* when none was given and the profile holds one.
C18_ExplicitOverridesProfile ==
    settings.computed =>
        /\ FollowsRule("venv_include", "include_venv", TRUE, settings.include_venv)
        /\ FollowsRule("exclude_dirs", "exclude_dirs", argv.exclude_dirs, settings.exclude_dirs)
        /\ FollowsRule("include_paths", "include_paths", argv.include_paths,
                       settings.include_paths)
        /\ FollowsRule("include_projects", "include_projects", argv.include_projects,
                       settings.include_projects)
        /\ FollowsRule("exclude_projects", "exclude_projects", argv.exclude_projects,
                       settings.exclude_projects)
        /\ FollowsRule("max_size_to_include", "max_size_to_include",
                       IF Given("max_size_to_include") THEN argv.max_size_to_include[1]
                       ELSE "20MB",
                       settings.max_size_to_include)
        /\ FollowsRule("compression_level", "compression_level",
                       IF Given("compression_level") THEN argv.compression_level[1] ELSE 9,
                       settings.compression_level)
        /\ FollowsRule("no_auto_modules", "auto_include_modules", FALSE,
                       settings.auto_include_modules)
        /\ FollowsRule("post_action", "post_backup_actions", argv.post_action,
                       settings.post_actions)
\* the file lies inside a directory that has the name of an environment
InEnvironmentDir(file) == \E k \in 1..(Len(file) - 1) : file[k] \in venv_dirs

\* C19: with include_venv true, a file inside a directory named venv, .venv,
\* env, .env or virtualenv that is not under an explicit include or a module
\* prefix is archived only if it matches one of the environment-marker
\* patterns; every other file there is dropped.
C19_OnlyMarkersFromEnvironments ==
    args.include_venv
        => \A i \in 1..Len(log) :
              (/\ log[i].kind = "added"
               /\ log[i].via # "custom path"
               /\ InEnvironmentDir(log[i].file))
                  => MatchesVenvFile(Abs(log[i].file))
\* a call of restore_project on its own, with show_diff and without dry_run,
\* has ended, its checks passed and no copy to a target failed
DiffRestoreEnded ==
    /\ cfg_call.op = "restore_project"
    /\ cfg_batch = NoBatch
    /\ cfg_pc = "idle"
    /\ cfg_call.show_diff
    /\ ~cfg_call.dry_run
    /\ cfg_faults = {}
    /\ cfg_result # "False"

\* C20: in restore_project with show_diff true and dry_run false, whatever
\* the comparison step meets, the entries of the project are then extracted
\* as they are with show_diff false: every one of them is written and the
\* call returns True.
C20_ComparisonNeverBlocksExtraction ==
    DiffRestoreEnded
        => /\ cfg_result = "True"
           /\ \A i \in 1..Len(cfg_archive.entries) :
                 StartsWith(cfg_archive.entries[i].name,
                            ProjectPathInZip(ProjectsDir, cfg_call.project_name))
                    => cfg_archive.entries[i].name \in cfg_extracted
\* the step belongs to a restore call made with dry_run
DryRestoreStep ==
    /\ cfg_call'.op \in {"restore_project", "restore_projects"}
    /\ cfg_call'.dry_run

\* C21: with dry_run true, no step of restore_project, of
\* restore_recent_projects or of restore_global_settings creates, writes or
\* overwrites a file or a directory of the disk.
C21_DryRunRestoreWritesNothing ==
    [][DryRestoreStep => UNCHANGED <<cfg_files, cfg_dirs>>]_vars

\* C21 happens: a dry run of restore_projects with the recent projects and
\* the global settings has returned, the archive holds entries of both
\* namespaces and of a project
C21_Witness ==
    /\ cfg_call.op = "restore_projects"
    /\ cfg_call.dry_run
    /\ cfg_call.backup_recent_projects
    /\ cfg_call.backup_global_settings
    /\ cfg_pc = "idle"
    /\ cfg_result = "True"
    /\ \E e \in Range(cfg_archive.entries) : IsRecentName(e.name)
    /\ \E e \in Range(cfg_archive.entries) : IsGlobalName(e.name)
\* C22: when the projects root directory does not exist, backup and
\* create_backup return False and change nothing on the disk: no container
\* file and no output directory is created.
C22_MissingRootChangesNothing ==
    [][/\ (op' = "backup" /\ ~pycharm_dir_exists)
            => (result' = "False" /\ UNCHANGED <<archive, output_dir_exists>>)
       /\ (cfg_call'.op = "create_backup" /\ cfg_vars' # cfg_vars /\ ProjectsDir \notin cfg_dirs)
            => (cfg_result' = "False" /\ UNCHANGED <<cfg_files, cfg_dirs, cfg_archive>>)]_vars

\* C22 happens: a backup that was not a dry run has returned False because
\* pycharm_dir does not exist, and neither the output directory nor the
\* container exists
C22_Witness ==
    /\ op = "backup"
    /\ pc = "idle"
    /\ ~dry_run
    /\ ~pycharm_dir_exists
    /\ result = "False"
    /\ ~output_dir_exists
    /\ ~archive.exists
\* C23: two completed backups of the same unmodified tree with the same
\* arguments archive the same (source path, archive name) pairs and finish
\* with the same statistics, whatever the order in which the projects
\* directory enumerated its projects in each run.
C23_SameResultInAnyOrder ==
    (/\ prev.result = "True"
     /\ last.result = "True"
     /\ prev.dry_run = last.dry_run)
        => /\ prev.accepted = last.accepted
           /\ prev.stats = last.stats
\* the archives in the working directory that are named as create_backup
\* names them by default
ToolBackups ==
    {f \in DOMAIN backup_dir : \E n \in 0..59 : f = DefaultBackupName(n)}

\* C24: after a backup run with --max-backups N, N > 0, at most N backup
\* archives named as create_backup names them remain in the directory.
C24_AtMostMaxBackupsRemain ==
    (clean_call.max_backups > 0 /\ clean_call.wrote)
        => Cardinality(ToolBackups) <= clean_call.max_backups
\* C25: every post-backup action ran after the container was written and
\* closed: no executed action saw the container handle still open.
C25_ActionsRunOnClosedContainer ==
    \A i \in 1..Len(actions_run) : ~actions_run[i].container_open
\* C26: restore_project for project P selects only archive entries below
\* <basename(projects_dir)>/P/, never an entry of a project whose name only
\* begins with P, and every target path it computes lies inside
\* <projects_dir>/P/.idea.
C26_OnlyEntriesOfTheProject ==
    cfg_call.op = "restore_project" =>
        \A i \in 1..Len(files_to_restore) :
            /\ StartsWith(files_to_restore[i].zip_path,
                          BaseName(ProjectsDir) \o "/" \o cfg_call.project_name \o "/")
            /\ StartsWith(Resolve(files_to_restore[i].target_path),
                          PathJoin(PathJoin(ProjectsDir, cfg_call.project_name), ".idea") \o "/")
\* the module prefixes that were detected in the project of rel_path
OwnModulePaths(rel_path) ==
    SelectSeq(module_paths, LAMBDA m : SplitSlash(m)[1] = rel_path[1])

\* C27: a directory visited by the backup is treated as explicitly included
\* only because of include_paths or of a module detected in its own
\* project, never because of a module prefix detected in another project.
C27_ModulesStayInTheirProject ==
    (op = "backup" /\ pc = "files" /\ path_explicitly_included)
        => \/ is_in_include_paths(root_path, args.include_paths)
           \/ is_in_include_paths(root_path, OwnModulePaths(root_path))
\* the selected names that are the first path segment of some entry of the
\* container
SelectedPresent ==
    {p \in selected_projects :
        \E i \in 1..Len(archive.entries) : SplitSlash(archive.entries[i].name)[1] = p}

\* the entries of the container below a selected project that is present
EntriesOfSelected ==
    {e \in Range(archive.entries) : SplitSlash(e.name)[1] \in SelectedPresent}

\* restore() with a selection of which one name at least is present has ended
SelectedRestoreDone ==
    /\ op = "restore"
    /\ pc = "idle"
    /\ archive.exists
    /\ SelectedPresent # {}

\* C28: restore with a non-empty selected_projects of which at least one
\* name is present returns True and leaves under extract_dir exactly the
\* entries whose first path segment is a selected project present in the
\* container (those whose extraction raised excepted, which are skipped),
\* each at its archive path with its archived content; no entry of another
\* top-level segment is extracted and the absent names change nothing.
C28_ExactlySelectedProjectsExtracted ==
    SelectedRestoreDone =>
        /\ result = "True"
        /\ extracted = {[path |-> SplitSlash(e.name), data |-> e.data] :
                            e \in {x \in EntriesOfSelected : x.name \notin extract_errors}}

\* C28 happens: lib and the absent ghost were selected, no extraction
\* failed, the files of lib are under extract_dir and the container also
\* holds entries of lib2
C28_Witness ==
    /\ SelectedRestoreDone
    /\ selected_projects = {"lib", "ghost"}
    /\ extract_errors = {}
    /\ \E e \in extracted : e.path[1] = "lib"
    /\ \E i \in 1..Len(archive.entries) : SplitSlash(archive.entries[i].name)[1] = "lib2"
\* the archived recent-projects files: _pycharm_recent_projects/<version>/<name>
RecentEntries ==
    {e \in Range(cfg_archive.entries) : StartsWith(e.name, "_pycharm_recent_projects/")}

\* the file <name> of the options directory of PyCharm version <version>
SameVersionTarget(name) ==
    PathJoin(PathJoin(PathJoin(JetBrainsDir, SplitSlash(name)[2]), "options"), BaseName(name))

\* restore_projects with the recent projects, not a dry run, has returned
\* True and no copy raised
RecentRestoreDone ==
    /\ cfg_call.op = "restore_projects"
    /\ ~cfg_call.dry_run
    /\ cfg_call.backup_recent_projects
    /\ cfg_pc = "idle"
    /\ cfg_result = "True"
    /\ cfg_faults = {}

\* C29: after a restore of the recent projects, each archived
\* recent-projects file is, with its archived content, in the options
\* directory of the PyCharm version under which it was archived, so the
\* files of two versions are not written over each other.
C29_RecentFilesGoToTheirVersion ==
    RecentRestoreDone =>
        \A e \in RecentEntries :
            /\ SameVersionTarget(e.name) \in DOMAIN cfg_files
            /\ cfg_files[SameVersionTarget(e.name)] = e.data
\* the exponent k of a unit name in upper case: B, KB, MB, GB, TB
UnitExponent(unit) ==
    CASE unit = "B" -> 0 [] unit = "KB" -> 1 [] unit = "MB" -> 2
      [] unit = "GB" -> 3 [] unit = "TB" -> 4

\* the length of the longest prefix of text made of digits
DigitPrefixLen(text) == Max({i \in 0..Len(text) : \A j \in 1..i : IsDigit(CharAt(text, j))})

\* what follows the digits of text, in upper case
UnitOf(text) == Upper(SubSeq(text, DigitPrefixLen(text) + 1, Len(text)))

\* text, spaces around it aside, is a size: digits n, alone or followed by
\* B, KB, MB, GB or TB in any case
IsValidSize(text) ==
    /\ DigitPrefixLen(Strip(text)) > 0
    /\ UnitOf(Strip(text)) \in {"", "B", "KB", "MB", "GB", "TB"}

\* n x 1024^k for a valid size
ValidSizeBytes(text) ==
    LET s == Strip(text)
        n == IntOfDigits(SubSeq(s, 1, DigitPrefixLen(s)))
    IN IntValue(FALSE, ShiftUp(BigOf(n), IF UnitOf(s) = "" THEN 0 ELSE UnitExponent(UnitOf(s))))

\* C30: parse_size returns n for the digit-only string n and n x 1024^k for
\* n followed by B, KB, MB, GB or TB in any case; for every other input it
\* raises ValueError; it never returns a negative number.
C30_ParseSize ==
    size_result # NoSizeResult =>
        /\ IF IsValidSize(size_str)
           THEN size_result = Returns(ValidSizeBytes(size_str))
           ELSE size_result = Raises("ValueError")
        /\ ~size_result.value.neg
====
